---- MODULE Spec2Model ----
(***************************************************************************)
(* A model of django-ldap3-sync: the Synchronizer reconciliation pass      *)
(* (src/ldap3_sync/utils.py, class Synchronizer) and the paged directory   *)
(* reader (class DePagingLDAPSearch), checked against the properties the   *)
(* specification states for them.                                          *)
(*                                                                         *)
(* Conventions.  Python's None is the string "None"; an unsaved model      *)
(* instance has pk 0 (the store assigns pks from 1).  A raw directory      *)
(* attribute value is a record [list, items]: a scalar s is                *)
(* [list |-> FALSE, items |-> <<s>>], a list is [list |-> TRUE, items |->  *)
(* the elements].  Mapped values and model fields are plain strings.       *)
(***************************************************************************)
EXTENDS Integers, Sequences, FiniteSets, TLC

VARIABLES
    args,       \* the arguments the caller constructs each Synchronizer with
    syn,        \* the fields of the current Synchronizer object
    pc,         \* where the current sync() call is
    i,          \* sync(): index of the next remote entry of the for loop
    k,          \* chunked_bulk_create: offset of the next chunk of unsaved_models
    db,         \* local store: the rows of django_object_model
    xref,       \* local store: the rows of LDAPSyncRecord
    nextPk,     \* local store: next auto-increment pk, per table
    clock,      \* store time, read by auto_now / auto_now_add
    passes,     \* number of sync() calls begun so far
    obs,        \* what the current sync() call has written, and the store it began with
    conn,       \* DePagingLDAPSearch: the ldap3 connection (directory and last response)
    srch,       \* DePagingLDAPSearch: the reader and the search call in progress
    cmd,        \* syncldap: the settings and the position of one handle() call
    call        \* generate_value_map: the arguments and the outcome of one call

vars == <<args, syn, pc, i, k, db, xref, nextPk, clock, passes, obs, conn, srch, cmd, call>>

syncVars == <<args, syn, pc, i, k, db, xref, nextPk, clock, passes, obs>>
searchVars == <<conn, srch>>

----------------------------------------------------------------------------
(* Bounds of the model *)

MaxEntries == 2     \* longest remote entry list handed to a Synchronizer
MaxPasses == 2      \* sync() calls in one behaviour

(* Program constants *)

NOTHING == "NOTHING"
SUSPEND == "SUSPEND"
DELETE == "DELETE"
None == "None"

(* The small universe the inputs are drawn from *)

Names == {"alice", "bob"}       \* unique-field values
DNs == {"dn1", "dn2"}           \* distinguished names
ContentType == "user"           \* ContentType.objects.get_for_model(django_object_model)

Scalar(s) == [list |-> FALSE, items |-> <<s>>]
List(q) == [list |-> TRUE, items |-> q]

\* attribute_map, in the order .items() yields it: <<ldap attribute, model attribute>>
attribute_map == << <<"uid", "username">>, <<"mail", "email">> >>
unique_name_field == "username"

\* Remote entries: a referral (not a search hit), an entry for alice that
\* lacks the mapped attribute mail, and well-formed hits whose mail is a
\* scalar "x" or a list starting with "y".
RefEntry == [type |-> "searchResRef", dn |-> None,
             attributes |-> [uid |-> Scalar("alice"), mail |-> Scalar("y")]]
HitEntry(d, a) == [type |-> "searchResEntry", dn |-> d, attributes |-> a]
MailValues == {Scalar("x"), List(<<"y", "x">>)}
EntryPool ==
    {RefEntry}
    \cup {HitEntry("dn1", [uid |-> Scalar("alice")])}
    \cup {HitEntry(d, [uid |-> Scalar(n), mail |-> m]) : d \in DNs, n \in Names, m \in MailValues}

SeqsUpTo(S, n) == UNION {[1..m -> S] : m \in 0..n}

----------------------------------------------------------------------------
(* Small helpers *)

Range(f) == {f[x] : x \in DOMAIN f}

RECURSIVE SetToSeq(_)
\* the elements of a set of rows, in pk order (the order a query returns them)
SetToSeq(S) ==
    IF S = {} THEN <<>>
    ELSE LET r == CHOOSE r \in S : \A t \in S : r.pk <= t.pk
         IN <<r>> \o SetToSeq(S \ {r})

\* a deletion that leaves the key in the dict
DictDel_nothing(d, x) == d

\* a Python dict as a function; d with key x removed / set
DictDel(d, x) == [y \in DOMAIN d \ {x} |-> d[y]]
DictSet(d, x, v) == [y \in DOMAIN d \cup {x} |-> IF y = x THEN v ELSE d[y]]
EmptyDict == [y \in {} |-> None]

----------------------------------------------------------------------------
(* Synchronizer: the pure helpers *)

\* a reading that takes every entry for a search result entry
EntryType_hit(ldap_object) == "searchResEntry"

\* ldap_object.get('type'), line 160
EntryType(ldap_object) == ldap_object.type

\* exempt_unique_name(unique_name)
exempt_unique_name(s, unique_name) == unique_name \in s.exempt_unique_names

\* the value one correspondence pair contributes: the raw value, the first
\* element of a list, None for an empty list
\* a reduction that keeps the last element of a list
MappedValue_last(raw) ==
    IF raw.list
    THEN IF Len(raw.items) > 0 THEN raw.items[Len(raw.items)] ELSE None
    ELSE raw.items[1]

MappedValue(raw) ==
    IF raw.list
    THEN IF Len(raw.items) > 0 THEN raw.items[1] ELSE None
    ELSE raw.items[1]

\* value_map[model_attr] is assigned once per pair, in order: the pair that
\* sets the value a local field ends with is the last one naming it
LastPair(amap, f) ==
    CHOOSE j \in 1..Len(amap) :
        /\ amap[j][2] = f
        /\ \A h \in 1..Len(amap) : amap[h][2] = f => h <= j

\* a mapping that gives an absent attribute the value None instead of raising
generate_value_map_lenient(amap, ldap_attribute_values) ==
    [ok |-> TRUE,
     field |-> None,
     value_map |-> [f \in {amap[j][2] : j \in 1..Len(amap)} |->
         LET a == amap[LastPair(amap, f)][1]
         IN IF a \in DOMAIN ldap_attribute_values
            THEN MappedValue(ldap_attribute_values[a]) ELSE None]]

\* generate_value_map(attribute_map, ldap_attribute_values): MissingLdapField
\* for the first pair (in iteration order) whose ldap attribute is absent,
\* else the dict model attribute -> mapped value
generate_value_map(amap, ldap_attribute_values) ==
    LET missing == {j \in 1..Len(amap) : amap[j][1] \notin DOMAIN ldap_attribute_values}
    IN IF missing # {}
       THEN [ok |-> FALSE,
             field |-> amap[CHOOSE j \in missing : \A h \in missing : j <= h][1],
             value_map |-> EmptyDict]
       ELSE [ok |-> TRUE,
             field |-> None,
             value_map |-> [f \in {amap[j][2] : j \in 1..Len(amap)} |->
                 MappedValue(ldap_attribute_values[amap[LastPair(amap, f)][1]])]]

\* a comparison that reports a change whatever the values are
will_model_change_always(value_map, user_model) == TRUE

\* the keys of the dict generate_value_map builds, in the order .items()
\* yields them: each local field at the place of the first pair naming it
RECURSIVE ValueMapKeys(_)
ValueMapKeys(amap) ==
    IF amap = <<>> THEN <<>>
    ELSE LET front == ValueMapKeys(SubSeq(amap, 1, Len(amap) - 1))
             f == amap[Len(amap)][2]
         IN IF f \in Range(front) THEN front ELSE Append(front, f)

\* the attributes an instance of django_object_model has
ModelFields == {"pk", "username", "email", "is_active"}

\* will_model_change, line 246: getattr(user_model, model_attr) raises
\* AttributeError when the loop reaches an attribute the model lacks before
\* it has met a value that differs
will_model_change_raises(keys, value_map, user_model) ==
    \E j \in 1..Len(keys) :
        /\ keys[j] \notin DOMAIN user_model
        /\ \A h \in 1..(j - 1) :
              /\ keys[h] \in DOMAIN user_model
              /\ user_model[keys[h]] = value_map[keys[h]]

\* will_model_change(value_map, user_model), when it returns: some attribute
\* it read differs from the mapped value
will_model_change(value_map, user_model) ==
    \E f \in DOMAIN value_map \cap DOMAIN user_model : ~(user_model[f] = value_map[f])

\* an application that sets no field
apply_value_map_nothing(value_map, user_model) == user_model

\* apply_value_map(value_map, user_model): setattr of every mapped field
apply_value_map(value_map, user_model) ==
    [f \in DOMAIN user_model |->
        IF f \in DOMAIN value_map THEN value_map[f] ELSE user_model[f]]

\* django_object_model(**value_map): a new, unsaved instance
NewModel(value_map) ==
    [pk |-> 0,
     username |-> IF "username" \in DOMAIN value_map THEN value_map["username"] ELSE None,
     email |-> IF "email" \in DOMAIN value_map THEN value_map["email"] ELSE None,
     is_active |-> TRUE]

\* add_uniquename_dn_map(unique_name, distinguished_name)
add_uniquename_dn_map(s, unique_name, distinguished_name) ==
    [s EXCEPT !.uniquename_dn_map = DictSet(@, unique_name, distinguished_name)]

\* add_unsaved_model(unsaved_model)
add_unsaved_model(s, unsaved_model) ==
    [s EXCEPT !.unsaved_models_v = Append(@, unsaved_model)]

----------------------------------------------------------------------------
(* The local store *)

\* a query that returns the first row only
get_django_objects_first(rows) ==
    IF rows = {} THEN <<>> ELSE <<SetToSeq(rows)[1]>>

\* model.objects.all(), as get_django_objects reads it
get_django_objects(rows) == SetToSeq(rows)

\* dict([(getattr(ro, unique_name_field), ro) for ro in raw_objects]): a later
\* row with the same key replaces an earlier one
RECURSIVE DictOf(_)
DictOf(q) ==
    IF q = <<>> THEN EmptyDict
    ELSE DictSet(DictOf(SubSeq(q, 1, Len(q) - 1)), q[Len(q)][unique_name_field], q[Len(q)])

\* instance.save() of a model row: UPDATE the row with this pk
SaveModel(rows, obj) == {r \in rows : r.pk # obj.pk} \cup {obj}

\* objects.bulk_create(chunk): one INSERT, each row given the next pk; the
\* instances in memory keep pk None (sqlite, tests/test_settings.py)
RECURSIVE InsertAll(_, _, _)
InsertAll(rows, chunk, pk) ==
    IF chunk = <<>> THEN rows
    ELSE InsertAll(rows \cup {[chunk[1] EXCEPT !.pk = pk]}, Tail(chunk), pk + 1)

\* objects.filter(<unique_name_field>__in=names): rows in pk order
FilterIn(rows, names) ==
    SetToSeq({r \in rows : r[unique_name_field] \in Range(names)})

\* LDAPSyncRecord.objects.get(content_type=..., object_id=...) candidates
XrefOf(xrows, object_id) ==
    {x \in xrows : x.content_type = ContentType /\ x.object_id = object_id}

\* unique_together (distinguished_name, content_type, object_id), models.py:40
XrefKey(x) == <<x.distinguished_name, x.content_type, x.object_id>>
XrefUnique(xrows) ==
    \A x, y \in xrows : XrefKey(x) = XrefKey(y) => x.pk = y.pk

\* lines 190-192: a found record whose dn differs is rewritten and saved
\* (auto_now stamps updated_at); one whose dn is the same is not saved
RewriteStale(xrows, found, distinguished_name, now) ==
    LET stale == {x \in found : x.distinguished_name # distinguished_name}
    IN (xrows \ stale) \cup
       {[x EXCEPT !.distinguished_name = distinguished_name, !.updated_at = now]
           : x \in stale}

\* an LDAPSyncRecord built for an instance that was never given a pk
NewXref_unsaved(obj, distinguished_name) ==
    [pk |-> 0, content_type |-> ContentType, object_id |-> 0,
     distinguished_name |-> distinguished_name, created_at |-> 0, updated_at |-> 0]

\* LDAPSyncRecord(obj=..., distinguished_name=...) before it is saved
NewXref(obj, distinguished_name) ==
    [pk |-> 0, content_type |-> ContentType, object_id |-> obj.pk,
     distinguished_name |-> distinguished_name, created_at |-> 0, updated_at |-> 0]

----------------------------------------------------------------------------
(* Synchronizer: construction and properties *)

DefaultChunkSize == 50

Min(a, b) == IF a < b THEN a ELSE b

\* Command.get_django_users / get_django_groups: every row whose unique name
\* is not exempt, keyed by unique name
get_django_users(rows, exempt) ==
    DictOf(SelectSeq(get_django_objects(rows),
                     LAMBDA u : u[unique_name_field] \notin exempt))

\* Synchronizer.__init__: the caller passes django_objects=None ("derived") or
\* the dict the syncldap command builds ("filtered")
Synchronizer(a, rows) ==
    [ldap_objects_v |-> a.ldap_objects,
     ldap_callable |-> a.ldap_callable,
     attribute_map_v |-> a.attribute_map,
     django_objects_set |-> a.django_objects = "filtered",
     django_objects_v |-> IF a.django_objects = "filtered"
                          THEN get_django_users(rows, a.exempt_unique_names)
                          ELSE EmptyDict,
     exempt_unique_names |-> a.exempt_unique_names,
     removal_action_v |-> a.removal_action,
     has_is_active |-> a.has_is_active,
     bulk_create_chunk_size |-> a.bulk_create_chunk_size,
     uniquename_dn_map |-> EmptyDict,
     unsaved_models_v |-> <<>>,
     updated_model_counter |-> 0]

\* the django_objects property: on first use with no value, load every row
_django_objects(s, rows) ==
    IF s.django_objects_set THEN s
    ELSE [s EXCEPT !.django_objects_set = TRUE,
                   !.django_objects_v = DictOf(get_django_objects(rows))]

\* a re-fetch that queries the first chunk of names only
chunked_just_saved_first_chunk(rows, unique_names, chunk_size) ==
    FilterIn(rows, SubSeq(unique_names, 1, Min(chunk_size, Len(unique_names))))

\* chunked_just_saved(model, filter_key, unique_names): one filter per chunk,
\* the results concatenated
RECURSIVE chunked_just_saved(_, _, _)
chunked_just_saved(rows, unique_names, chunk_size) ==
    IF unique_names = <<>> THEN <<>>
    ELSE LET n == Min(chunk_size, Len(unique_names))
         IN FilterIn(rows, SubSeq(unique_names, 1, n))
            \o chunked_just_saved(rows, SubSeq(unique_names, n + 1, Len(unique_names)),
                                  chunk_size)

\* LDAPSyncRecord.objects.bulk_create(chunk): rows with fresh pks, stamped now
RECURSIVE InsertXrefs(_, _, _, _)
InsertXrefs(xrows, chunk, pk, now) ==
    IF chunk = <<>> THEN xrows
    ELSE InsertXrefs(
            xrows \cup {[chunk[1] EXCEPT !.pk = pk, !.created_at = now, !.updated_at = now]},
            Tail(chunk), pk + 1, now)

\* chunked_bulk_create(ldap_sync_model, new_ldap_sync_models): chunk after
\* chunk; a chunk that breaks unique_together raises IntegrityError and leaves
\* the earlier chunks in the store
RECURSIVE chunked_bulk_create_xrefs(_, _, _, _, _)
chunked_bulk_create_xrefs(xrows, new_models, chunk_size, pk, now) ==
    IF new_models = <<>> THEN [ok |-> TRUE, rows |-> xrows, pk |-> pk]
    ELSE LET n == Min(chunk_size, Len(new_models))
             after == InsertXrefs(xrows, SubSeq(new_models, 1, n), pk, now)
         IN IF ~XrefUnique(after)
            THEN [ok |-> FALSE, rows |-> xrows, pk |-> pk]
            ELSE chunked_bulk_create_xrefs(after,
                    SubSeq(new_models, n + 1, Len(new_models)), chunk_size, pk + n, now)

----------------------------------------------------------------------------
(* Synchronizer.sync(), step by step *)

Entries == syn.ldap_objects_v

Walking == pc = "sync" /\ i <= Len(Entries)
Creating == pc = "sync" /\ i > Len(Entries) /\ k < Len(syn.unsaved_models_v)
\* a pass that goes on to the LDAPSyncRecords and the removal as soon as the
\* walk is over
Linking_after_walk == pc = "sync" /\ i > Len(Entries)
Linking == pc = "sync" /\ i > Len(Entries) /\ k >= Len(syn.unsaved_models_v)

\* Bookkeeping of one sync() call, for stating the properties: the store and
\* the local record set as the call found them, the counter and the staged
\* list it began with, whether the object had already run a pass, the pks of
\* the model rows saved and bulk-created, of the LDAPSyncRecord rows created
\* and rewritten, the ids the removal step computed and those it acted on,
\* the exception that ended the call, and the store write that raised it.
NoObs == [db0 |-> db, xref0 |-> xref,
          local0 |-> _django_objects(syn, db).django_objects_v,
          counter0 |-> syn.updated_model_counter,
          staged0 |-> Len(syn.unsaved_models_v),
          reused |-> pc = "done",
          saved |-> {}, created |-> {}, linked |-> {}, relinked |-> {},
          orphans |-> {}, targets |-> {}, error |-> None, site |-> None]

\* s.sync() is called, on a fresh object or again on the one that just finished.
\* Line 159 calls the value of the ldap_objects property: a plain list there
\* raises TypeError before anything else happens.
SyncCall ==
    /\ pc \in {"ready", "done"}
    /\ passes < MaxPasses
    /\ passes' = passes + 1
    /\ i' = 1
    /\ k' = 0
    /\ IF syn.ldap_callable
       THEN /\ pc' = "sync"
            /\ obs' = NoObs
       ELSE /\ pc' = "failed"
            /\ obs' = [NoObs EXCEPT !.error = "TypeError"]
    /\ UNCHANGED <<args, syn, db, xref, nextPk, clock, searchVars, cmd, call>>

\* The caller builds a new Synchronizer from the same arguments, as the
\* syncldap command does on every run.
NewSynchronizer ==
    /\ pc = "done"
    /\ passes < MaxPasses
    /\ syn' = Synchronizer(args, db)
    /\ pc' = "ready"
    /\ UNCHANGED <<args, i, k, db, xref, nextPk, clock, passes, obs, searchVars, cmd, call>>

\* lines 180-195: the matched branch of one loop iteration
Matched(s, value_map, unique_name, distinguished_name) ==
    LET django_object == s.django_objects_v[unique_name]
        change == will_model_change(value_map, django_object)
        applied == IF change THEN apply_value_map(value_map, django_object)
                   ELSE django_object
        s1 == IF change THEN [s EXCEPT !.updated_model_counter = @ + 1] ELSE s
        found == XrefOf(xref, django_object.pk)
        stale == {x \in found : x.distinguished_name # distinguished_name}
        saved == IF change THEN obs.saved \cup {django_object.pk} ELSE obs.saved
    IN
    IF will_model_change_raises(ValueMapKeys(s.attribute_map_v), value_map, django_object)
    THEN \* AttributeError is not KeyError: it leaves the try of line 180
         /\ pc' = "failed"
         /\ syn' = s
         /\ obs' = [obs EXCEPT !.error = "AttributeError"]
         /\ UNCHANGED <<i, db, xref, nextPk>>
    ELSE
    /\ db' = IF change THEN SaveModel(db, applied) ELSE db
    /\ IF Cardinality(found) > 1
       THEN \* .get() raises MultipleObjectsReturned, which nothing catches
            /\ pc' = "failed"
            /\ syn' = s1
            /\ i' = i
            /\ obs' = [obs EXCEPT !.error = "MultipleObjectsReturned", !.saved = saved]
            /\ UNCHANGED <<xref, nextPk>>
       ELSE /\ pc' = pc
            /\ i' = i + 1
            /\ syn' = [s1 EXCEPT !.django_objects_v = DictDel(@, unique_name)]
            /\ IF found = {}
               THEN \* DoesNotExist: a new LDAPSyncRecord is saved
                    /\ xref' = InsertXrefs(xref,
                                  <<NewXref(django_object, distinguished_name)>>,
                                  nextPk.xref, clock)
                    /\ nextPk' = [nextPk EXCEPT !.xref = @ + 1]
                    /\ obs' = [obs EXCEPT !.saved = saved, !.linked = @ \cup {nextPk.xref}]
               ELSE \* the record found is rewritten only if its dn differs
                    /\ xref' = RewriteStale(xref, found, distinguished_name, clock)
                    /\ obs' = [obs EXCEPT !.saved = saved,
                                          !.relinked = @ \cup {x.pk : x \in stale}]
                    /\ UNCHANGED nextPk

\* lines 159-201: one iteration of the for loop
WalkEntry ==
    /\ Walking
    /\ LET ldap_object == Entries[i]
           g == generate_value_map(syn.attribute_map_v, ldap_object.attributes)
       IN IF EntryType(ldap_object) # "searchResEntry" \/ ~g.ok
          THEN /\ i' = i + 1
               /\ UNCHANGED <<syn, pc, db, xref, nextPk, obs>>
          ELSE IF unique_name_field \notin DOMAIN g.value_map
          THEN \* line 172, value_map[self.unique_name_field]: KeyError, in no try
               /\ pc' = "failed"
               /\ obs' = [obs EXCEPT !.error = "KeyError"]
               /\ UNCHANGED <<syn, i, db, xref, nextPk>>
          ELSE LET unique_name == g.value_map[unique_name_field]
                   distinguished_name == ldap_object.dn
                   s == _django_objects(
                            add_uniquename_dn_map(syn, unique_name, distinguished_name), db)
               IN IF unique_name \in DOMAIN s.django_objects_v
                  THEN Matched(s, g.value_map, unique_name, distinguished_name)
                  ELSE IF ~(DOMAIN g.value_map \subseteq ModelFields)
                  THEN \* line 197, django_object_model(**value_map): TypeError
                       \* for a keyword that is no field of the model
                       /\ pc' = "failed"
                       /\ syn' = s
                       /\ obs' = [obs EXCEPT !.error = "TypeError"]
                       /\ UNCHANGED <<i, db, xref, nextPk>>
                  ELSE /\ syn' = add_unsaved_model(s, NewModel(g.value_map))
                       /\ i' = i + 1
                       /\ UNCHANGED <<pc, db, xref, nextPk, obs>>
    /\ clock' = clock + 1
    /\ UNCHANGED <<args, k, passes, searchVars, cmd, call>>

\* line 203, chunked_bulk_create(django_object_model, unsaved_models): one
\* bulk_create of the next chunk_size staged instances
BulkCreateChunk ==
    /\ Creating
    /\ LET unsaved_models == syn.unsaved_models_v
           n == Min(syn.bulk_create_chunk_size, Len(unsaved_models) - k)
           chunk == SubSeq(unsaved_models, k + 1, k + n)
       IN /\ db' = InsertAll(db, chunk, nextPk.model)
          /\ nextPk' = [nextPk EXCEPT !.model = @ + n]
          /\ obs' = [obs EXCEPT !.created = @ \cup (nextPk.model .. nextPk.model + n - 1)]
          /\ k' = k + n
    /\ clock' = clock + 1
    /\ UNCHANGED <<args, syn, pc, i, xref, passes, searchVars, cmd, call>>

\* lines 207-213: re-fetch the staged records by unique name and bulk-create
\* one LDAPSyncRecord per fetched row
LinkCreated ==
    /\ Linking
    /\ LET unsaved_models == syn.unsaved_models_v
           filter_value == [j \in 1..Len(unsaved_models) |->
                               unsaved_models[j][unique_name_field]]
           just_saved_models == chunked_just_saved(db, filter_value,
                                                   syn.bulk_create_chunk_size)
           new_ldap_sync_models ==
               [j \in 1..Len(just_saved_models) |->
                   NewXref(just_saved_models[j],
                           syn.uniquename_dn_map[just_saved_models[j][unique_name_field]])]
           r == chunked_bulk_create_xrefs(xref, new_ldap_sync_models,
                                          syn.bulk_create_chunk_size, nextPk.xref, clock)
       IN /\ xref' = r.rows
          /\ nextPk' = [nextPk EXCEPT !.xref = r.pk]
          /\ obs' = [obs EXCEPT !.linked = @ \cup (nextPk.xref .. r.pk - 1),
                                !.error = IF r.ok THEN @ ELSE "IntegrityError"]
          /\ pc' = IF r.ok THEN "remove" ELSE "failed"
    /\ clock' = clock + 1
    /\ UNCHANGED <<args, syn, i, k, db, passes, searchVars, cmd, call>>

\* in_bulk(ids) returns a dict {id: instance}; .update(is_active=False) is
\* then dict.update, which adds the key 'is_active' to that dict: no row changes
in_bulk_update(rows, ids) == rows

\* a delete that removes no row
DeleteRows_nothing(rows, ids) == rows

\* filter(id__in=ids).all().delete()
DeleteRows(rows, ids) == {r \in rows : r.pk \notin ids}

\* a removal step that deletes what is left of django_objects whatever the
\* removal action is
Remove_whatever_the_action ==
    /\ pc = "remove"
    /\ LET s == _django_objects(syn, db)
           existing_model_ids == {s.django_objects_v[n].pk : n \in DOMAIN s.django_objects_v}
       IN /\ syn' = s
          /\ db' = DeleteRows(db, existing_model_ids)
          /\ obs' = [obs EXCEPT !.orphans = existing_model_ids,
                                !.targets = existing_model_ids]
    /\ pc' = "done"
    /\ clock' = clock + 1
    /\ UNCHANGED <<args, i, k, xref, nextPk, passes, searchVars, cmd, call>>

\* lines 221-238: the removal action on what is left of django_objects
Remove ==
    /\ pc = "remove"
    /\ LET s == _django_objects(syn, db)
           existing_unique_names == DOMAIN s.django_objects_v
           existing_model_ids ==
               {s.django_objects_v[n].pk : n \in
                   {m \in DOMAIN s.django_objects_v :
                       s.django_objects_v[m][unique_name_field] \in existing_unique_names}}
       IN /\ syn' = s
          /\ IF s.removal_action_v = SUSPEND /\ s.has_is_active
             THEN /\ db' = in_bulk_update(db, existing_model_ids)
                  /\ obs' = [obs EXCEPT !.orphans = existing_model_ids,
                                        !.targets = existing_model_ids]
             ELSE IF s.removal_action_v = DELETE
             THEN /\ db' = DeleteRows(db, existing_model_ids)
                  /\ obs' = [obs EXCEPT !.orphans = existing_model_ids,
                                        !.targets = existing_model_ids]
             ELSE /\ db' = db
                  /\ obs' = [obs EXCEPT !.orphans = existing_model_ids]
    /\ pc' = "done"
    /\ clock' = clock + 1
    /\ UNCHANGED <<args, i, k, xref, nextPk, passes, searchVars, cmd, call>>

----------------------------------------------------------------------------
(* The initial store and the callers' arguments *)

InitDN(n) == IF n = "alice" THEN "dn1" ELSE "dn2"

\* rows for the names in present (pks in name order), each with email "x"
InitRows(present) ==
    LET q == SetToSeq({[pk |-> IF n = "alice" THEN 1 ELSE 2, n |-> n] : n \in present})
    IN {[pk |-> j, username |-> q[j].n, email |-> "x", is_active |-> TRUE] : j \in 1..Len(q)}

InitXrefs(rows, linked) ==
    {[pk |-> r.pk, content_type |-> ContentType, object_id |-> r.pk,
      distinguished_name |-> InitDN(r.username), created_at |-> 0, updated_at |-> 0]
        : r \in {t \in rows : t.username \in linked}}

ArgSets ==
    [ldap_objects : SeqsUpTo(EntryPool, MaxEntries),
     ldap_callable : BOOLEAN,
     django_objects : {"derived", "filtered"},
     exempt_unique_names : {{}, {"alice"}},
     removal_action : {NOTHING, SUSPEND, DELETE},
     has_is_active : BOOLEAN,
     bulk_create_chunk_size : {1, DefaultChunkSize},
     attribute_map : {attribute_map}]

\* no directory reader takes part in a reconciliation pass
NoConnection ==
    [directory |-> <<>>, limit |-> 0, response |-> <<>>, cookie |-> 0, requests |-> <<>>]
NoSearch ==
    [self_paged_size |-> 0, kw_paged_size |-> 0, kw_paged_cookie |-> 0,
     paged_size |-> 0, results |-> <<>>, cookie |-> 0, pc |-> "idle", error |-> None]

InitSearchIdle ==
    /\ conn = NoConnection
    /\ srch = NoSearch

\* no handle() call and no generate_value_map call is in progress
NoCommand == [pc |-> "idle", has_args |-> FALSE, settings |-> EmptyDict,
              error |-> None, searches |-> <<>>,
              user_groups |-> {}, member_of |-> {}, group_cache |-> EmptyDict]
NoCall == [pc |-> "idle", attribute_map |-> <<>>, ldap_attribute_values |-> EmptyDict,
           given |-> <<>>, value_map |-> EmptyDict, field |-> None]

\* a store of some of the named records, some of them linked, and a
\* Synchronizer just constructed on it
InitStore ==
    /\ \E present \in SUBSET Names : \E linked \in SUBSET present :
          /\ db = InitRows(present)
          /\ xref = InitXrefs(db, linked)
          /\ nextPk = [model |-> Cardinality(present) + 1, xref |-> Cardinality(present) + 1]
    /\ syn = Synchronizer(args, db)

Init ==
    /\ args \in ArgSets
    /\ args.has_is_active \/ args.removal_action = SUSPEND
    /\ args.django_objects = "filtered" => args.exempt_unique_names # {}
    /\ InitStore
    /\ pc = "ready"
    /\ i = 1
    /\ k = 0
    /\ clock = 1
    /\ passes = 0
    /\ obs = NoObs
    /\ InitSearchIdle
    /\ cmd = NoCommand
    /\ call = NoCall

Next ==
    \/ SyncCall
    \/ NewSynchronizer
    \/ WalkEntry
    \/ BulkCreateChunk
    \/ LinkCreated
    \/ Remove

Spec == Init /\ [][Next]_vars

----------------------------------------------------------------------------
(* sync() against a store whose writes can fail *)

\* a pass that undoes its writes when one of them fails
AfterFailedWrite_rolled_back(rows, rows0) == rows0

\* The table after a write of the pass raised: sync() opens no transaction
\* and catches no store error, so the table holds what the writes before
\* the failing one left (rows), not what the pass began with (rows0).
AfterFailedWrite(rows, rows0) == rows

\* lines 184 and 192-194: django_object.save() raises, or after it the save
\* of the LDAPSyncRecord does
MatchedFails(s, value_map, unique_name, distinguished_name, site) ==
    LET django_object == s.django_objects_v[unique_name]
        change == will_model_change(value_map, django_object)
        applied == apply_value_map(value_map, django_object)
        s1 == IF change THEN [s EXCEPT !.updated_model_counter = @ + 1] ELSE s
        found == XrefOf(xref, django_object.pk)
        stale == {x \in found : x.distinguished_name # distinguished_name}
    IN /\ ~will_model_change_raises(ValueMapKeys(s.attribute_map_v), value_map, django_object)
       /\ IF site = "save"
          THEN /\ change
               /\ syn' = s
               /\ db' = AfterFailedWrite(db, obs.db0)
               /\ obs' = [obs EXCEPT !.error = "DatabaseError", !.site = site]
          ELSE /\ Cardinality(found) <= 1
               /\ found = {} \/ stale # {}
               /\ syn' = s1
               /\ db' = AfterFailedWrite(IF change THEN SaveModel(db, applied) ELSE db,
                                         obs.db0)
               /\ obs' = [obs EXCEPT !.error = "DatabaseError", !.site = site,
                                     !.saved = IF change THEN @ \cup {django_object.pk}
                                               ELSE @]
       /\ xref' = AfterFailedWrite(xref, obs.xref0)
       /\ pc' = "failed"
       /\ UNCHANGED <<i, nextPk>>

\* one iteration of the for loop in which a save raises
WalkEntryFails ==
    /\ Walking
    /\ LET ldap_object == Entries[i]
           g == generate_value_map(syn.attribute_map_v, ldap_object.attributes)
       IN /\ EntryType(ldap_object) = "searchResEntry"
          /\ g.ok
          /\ unique_name_field \in DOMAIN g.value_map
          /\ LET unique_name == g.value_map[unique_name_field]
                 distinguished_name == ldap_object.dn
                 s == _django_objects(
                          add_uniquename_dn_map(syn, unique_name, distinguished_name), db)
             IN /\ unique_name \in DOMAIN s.django_objects_v
                /\ \E site \in {"save", "xref_save"} :
                      MatchedFails(s, g.value_map, unique_name, distinguished_name, site)
    /\ clock' = clock + 1
    /\ UNCHANGED <<args, k, passes, searchVars, cmd, call>>

\* line 254: the bulk_create of the next chunk raises
BulkCreateChunkFails ==
    /\ Creating
    /\ db' = AfterFailedWrite(db, obs.db0)
    /\ xref' = AfterFailedWrite(xref, obs.xref0)
    /\ obs' = [obs EXCEPT !.error = "DatabaseError", !.site = "bulk_create"]
    /\ pc' = "failed"
    /\ clock' = clock + 1
    /\ UNCHANGED <<args, syn, i, k, nextPk, passes, searchVars, cmd, call>>

\* line 213: the bulk_create of one chunk of LDAPSyncRecords raises, after
\* the chunks before it were created
LinkCreatedFails ==
    /\ Linking
    /\ LET unsaved_models == syn.unsaved_models_v
           filter_value == [j \in 1..Len(unsaved_models) |->
                               unsaved_models[j][unique_name_field]]
           just_saved_models == chunked_just_saved(db, filter_value,
                                                   syn.bulk_create_chunk_size)
           new_ldap_sync_models ==
               [j \in 1..Len(just_saved_models) |->
                   NewXref(just_saved_models[j],
                           syn.uniquename_dn_map[just_saved_models[j][unique_name_field]])]
       IN \E done \in 0..(Len(new_ldap_sync_models) - 1) :
             /\ done % syn.bulk_create_chunk_size = 0
             /\ LET r == chunked_bulk_create_xrefs(xref,
                              SubSeq(new_ldap_sync_models, 1, done),
                              syn.bulk_create_chunk_size, nextPk.xref, clock)
                IN /\ r.ok
                   /\ xref' = AfterFailedWrite(r.rows, obs.xref0)
                   /\ nextPk' = [nextPk EXCEPT !.xref = r.pk]
                   /\ obs' = [obs EXCEPT !.linked = @ \cup (nextPk.xref .. r.pk - 1),
                                         !.error = "DatabaseError",
                                         !.site = "xref_bulk_create"]
    /\ db' = AfterFailedWrite(db, obs.db0)
    /\ pc' = "failed"
    /\ clock' = clock + 1
    /\ UNCHANGED <<args, syn, i, k, passes, searchVars, cmd, call>>

\* lines 232 and 236: the query of the removal action raises
RemoveFails ==
    /\ pc = "remove"
    /\ \/ syn.removal_action_v = DELETE
       \/ syn.removal_action_v = SUSPEND /\ syn.has_is_active
    /\ syn' = _django_objects(syn, db)
    /\ db' = AfterFailedWrite(db, obs.db0)
    /\ xref' = AfterFailedWrite(xref, obs.xref0)
    /\ obs' = [obs EXCEPT !.error = "DatabaseError", !.site = "remove"]
    /\ pc' = "failed"
    /\ clock' = clock + 1
    /\ UNCHANGED <<args, i, k, nextPk, passes, searchVars, cmd, call>>

NextFaulty ==
    \/ Next
    \/ WalkEntryFails
    \/ BulkCreateChunkFails
    \/ LinkCreatedFails
    \/ RemoveFails

SpecFaulty == Init /\ [][NextFaulty]_vars

----------------------------------------------------------------------------
(* Synchronizers constructed with other attribute maps *)

\* a map without the unique field, and a map to an attribute the model lacks
NoUniqueMap == << <<"mail", "email">> >>
NoSuchFieldMap == << <<"uid", "username">>, <<"mail", "nickname">> >>
AttributeMaps == {attribute_map, NoUniqueMap, NoSuchFieldMap}

\* a removal action that is a function of the caller's, not one of the three
\* constants
RemovalFunction == "function"

ConfigArgSets ==
    [ldap_objects : SeqsUpTo(EntryPool, MaxEntries),
     ldap_callable : {TRUE},
     django_objects : {"derived", "filtered"},
     exempt_unique_names : {{}},
     removal_action : {NOTHING, DELETE, RemovalFunction},
     has_is_active : {TRUE},
     bulk_create_chunk_size : {DefaultChunkSize},
     attribute_map : AttributeMaps]

InitConfig ==
    /\ args \in ConfigArgSets
    /\ InitStore
    /\ pc = "ready"
    /\ i = 1
    /\ k = 0
    /\ clock = 1
    /\ passes = 0
    /\ obs = NoObs
    /\ InitSearchIdle
    /\ cmd = NoCommand
    /\ call = NoCall

SpecConfig == InitConfig /\ [][Next]_vars

----------------------------------------------------------------------------
(* DePagingLDAPSearch against a paging directory *)

MaxResults == 14        \* largest result set the directory holds
DefaultPagedSize == 400 \* DePagingLDAPSearch.__init__, paged_size=400
SmallPage == 5          \* tests.py, test_search_small_page
BigPage == 500          \* tests.py, test_search_big_page

\* page sizes a reader is constructed with, and per-call paged_size arguments
\* (0: the argument is not given)
CtorPagedSizes == {0, 1, 2, 3, SmallPage, DefaultPagedSize, BigPage}
CallPagedSizes == {0, 1, 2, SmallPage, BigPage}
\* a paged_cookie the caller passes (0: none): the position of a later page
CallerCookies == {0, 3}
\* most entries the directory serves per request, whatever page size is asked
ServerLimits == {2, BigPage}

\* connection.search(..., paged_size=size, paged_cookie=cookie) on a directory
\* that pages (RFC 2696): the next run of at most size entries (and at most
\* the server's own limit), and the cookie of the position after it, empty
\* (0) when nothing remains
Serve(c, size, cookie) ==
    LET n == Len(c.directory)
        start == IF cookie = 0 THEN 1 ELSE cookie
        room == IF n - start + 1 > 0 THEN n - start + 1 ELSE 0
        count == Min(Min(size, c.limit), room)
    IN [c EXCEPT !.response = SubSeq(c.directory, start, start + count - 1),
                 !.cookie = IF start + count <= n THEN start + count ELSE 0,
                 !.requests = Append(@, [paged_size |-> size, paged_cookie |-> cookie])]

\* DePagingLDAPSearch.__init__: assert(paged_size > 1)
NewDePagingLDAPSearch ==
    /\ srch.pc = "new"
    /\ srch' = IF srch.self_paged_size > 1
               THEN [srch EXCEPT !.pc = "ready"]
               ELSE [srch EXCEPT !.pc = "failed", !.error = "AssertionError"]
    /\ UNCHANGED <<conn, syncVars, cmd, call>>

\* the condition of line 328 on the first response
FollowCookie(response, self_paged_size) == Len(response) > self_paged_size

\* a first request that carries the caller's cookie
FirstCookie_kept(kw_paged_cookie) == kw_paged_cookie

\* lines 322-323: a paged_cookie among the keyword arguments is deleted, so
\* the first connection.search carries none (0)
FirstCookie(kw_paged_cookie) == 0

\* search(), lines 316-329: choose the page size, drop a caller's cookie, send
\* the first request, keep its response, and read the cookie only if line
\* 328 says so
SearchFirst ==
    /\ srch.pc = "ready"
    /\ LET paged_size == IF srch.kw_paged_size # 0 THEN srch.kw_paged_size
                         ELSE srch.self_paged_size
           c == Serve(conn, paged_size, FirstCookie(srch.kw_paged_cookie))
           follow == FollowCookie(c.response, srch.self_paged_size)
       IN /\ conn' = c
          /\ srch' = [srch EXCEPT !.paged_size = paged_size,
                                  !.results = c.response,
                                  !.cookie = IF follow THEN c.cookie ELSE 0,
                                  !.pc = IF follow /\ c.cookie # 0 THEN "loop" ELSE "done"]
    /\ UNCHANGED <<syncVars, cmd, call>>

\* lines 330-333: one iteration of the while loop
SearchNext ==
    /\ srch.pc = "loop"
    /\ LET c == Serve(conn, srch.paged_size, srch.cookie)
       IN /\ conn' = c
          /\ srch' = [srch EXCEPT !.results = @ \o c.response,
                                  !.cookie = c.cookie,
                                  !.pc = IF c.cookie # 0 THEN "loop" ELSE "done"]
    /\ UNCHANGED <<syncVars, cmd, call>>

\* no Synchronizer takes part in a search
InitSyncIdle ==
    /\ args = [ldap_objects |-> <<>>, ldap_callable |-> TRUE, django_objects |-> "derived",
               exempt_unique_names |-> {}, removal_action |-> NOTHING,
               has_is_active |-> TRUE, bulk_create_chunk_size |-> DefaultChunkSize,
               attribute_map |-> attribute_map]
    /\ db = {}
    /\ xref = {}
    /\ nextPk = [model |-> 1, xref |-> 1]
    /\ syn = Synchronizer(args, db)
    /\ pc = "idle"
    /\ i = 1
    /\ k = 0
    /\ clock = 1
    /\ passes = 0
    /\ obs = NoObs

\* a directory holding the entries 1..n, and a reader about to be constructed
InitSearch ==
    /\ \E n \in 0..MaxResults : \E lim \in ServerLimits :
          conn = [NoConnection EXCEPT !.directory = [j \in 1..n |-> j], !.limit = lim]
    /\ \E p \in CtorPagedSizes : \E q \in CallPagedSizes : \E ck \in CallerCookies :
          srch = [NoSearch EXCEPT !.self_paged_size = p, !.kw_paged_size = q,
                                  !.kw_paged_cookie = ck, !.pc = "new"]
    /\ InitSyncIdle
    /\ cmd = NoCommand
    /\ call = NoCall

NextSearch ==
    \/ NewDePagingLDAPSearch
    \/ SearchFirst
    \/ SearchNext

SpecSearch == InitSearch /\ [][NextSearch]_vars

----------------------------------------------------------------------------
(* Vocabulary of the properties *)

\* a search hit that carries every attribute of the correspondence
WellFormed(e) ==
    /\ e.type = "searchResEntry"
    /\ \A j \in 1..Len(attribute_map) : attribute_map[j][1] \in DOMAIN e.attributes

EntryName(e) == MappedValue(e.attributes["uid"])
EntryMail(e) == MappedValue(e.attributes["mail"])

\* the positions of the remote entries the walk processes for unique value n,
\* and the first of them: the entry the walk looks n up with
Carriers(n) == {j \in 1..Len(Entries) : WellFormed(Entries[j]) /\ EntryName(Entries[j]) = n}
FirstCarrier(n) == CHOOSE j \in Carriers(n) : \A h \in Carriers(n) : j <= h

\* the records of the local record set the current call began with
Local0 == Range(obs.local0)

\* the current sync() call has returned normally
Finished == pc = "done"

----------------------------------------------------------------------------
(* C1: idempotence *)

\* C1: a sync() called right after a first sync(), on the same object or on a
\* newly constructed one, with the same remote entries and removal policy
\* NOTHING, creates no local record, saves no local record and leaves the
\* LDAPSyncRecord table as it found it.
C1_Idempotence ==
    (passes >= 2 /\ syn.removal_action_v = NOTHING)
        => /\ obs.created = {}
           /\ obs.saved = {}
           /\ xref = obs.xref0

\* the same statement for a second call on a newly constructed object, when
\* no two processed entries carry the same unique value and none carries an
\* exempt one
C1_IdempotenceFreshObject ==
    (/\ passes >= 2
     /\ syn.removal_action_v = NOTHING
     /\ ~obs.reused
     /\ \A n \in Names :
           /\ Cardinality(Carriers(n)) <= 1
           /\ n \in syn.exempt_unique_names => Carriers(n) = {})
        => /\ obs.created = {}
           /\ obs.saved = {}
           /\ xref = obs.xref0

\* a second call on the same object that bulk-created again
C1_Recreated ==
    /\ passes >= 2
    /\ obs.reused
    /\ syn.removal_action_v = NOTHING
    /\ syn.exempt_unique_names = {}
    /\ obs.created # {}

----------------------------------------------------------------------------
(* C2: create *)

\* every remote entry is a well-formed search hit and no two carry the same
\* unique value
AllDistinctHits ==
    \A j \in 1..Len(Entries) :
        WellFormed(Entries[j]) /\ Carriers(EntryName(Entries[j])) = {j}

----------------------------------------------------------------------------
(* C3: removal policy SUSPEND *)

\* C3: under SUSPEND on a model with is_active, after sync() every record of
\* the local record set whose unique value no processed entry carried has
\* is_active = FALSE in the store.
C3_Suspend ==
    (Finished /\ syn.removal_action_v = SUSPEND /\ syn.has_is_active)
        => \A r \in Local0 :
              Carriers(r.username) = {}
                  => \E t \in db : t.pk = r.pk /\ t.is_active = FALSE

----------------------------------------------------------------------------
(* C4, C5: the exemption set *)

\* C4: a record whose unique value is exempt is never among the ids the
\* removal policy acts on, is never deleted and never has its is_active changed.
C4_ExemptNotRemoved ==
    \A r \in obs.db0 :
        r.username \in syn.exempt_unique_names
            => /\ r.pk \notin obs.targets
               /\ \E t \in db : t.pk = r.pk /\ t.is_active = r.is_active

\* C5: for an exempt unique value, sync() stages no record, bulk-creates no
\* record and saves no existing record with that value.
C5_ExemptUntouched ==
    \A n \in syn.exempt_unique_names :
        /\ \A j \in (obs.staged0 + 1)..Len(syn.unsaved_models_v) :
              syn.unsaved_models_v[j].username # n
        /\ \A r \in db : r.pk \in obs.created => r.username # n
        /\ \A r \in obs.db0 : r.username = n => r.pk \notin obs.saved

----------------------------------------------------------------------------
(* C7, C8: update and no-op update *)

\* a sync() call has begun and obs describes it
InCall == pc \in {"sync", "remove", "done", "failed"}

\* the entry the walk looks record r up with: the first processed entry that
\* carries r's unique value
MatchOf(r) == Entries[FirstCarrier(r.username)]

\* C7: for a record of the local record set matched by a remote entry from
\* whose mapped values it differs in some mapped field, after sync() every
\* mapped field of the stored record equals the entry's mapped value, and the
\* updated-count has grown by exactly one per record saved, this record among
\* them.
C7_Update ==
    Finished =>
        /\ syn.updated_model_counter = obs.counter0 + Cardinality(obs.saved)
        /\ \A r \in Local0 :
              (Carriers(r.username) # {} /\ r.email # EntryMail(MatchOf(r)))
                  => /\ r.pk \in obs.saved
                     /\ \E t \in db :
                           /\ t.pk = r.pk
                           /\ t.username = EntryName(MatchOf(r))
                           /\ t.email = EntryMail(MatchOf(r))

\* a record whose email differed from its entry's was saved, and counted once
C7_Updated ==
    /\ Finished
    /\ syn.updated_model_counter = 1
    /\ \E r \in Local0 :
          /\ Carriers(r.username) # {}
          /\ r.email # EntryMail(MatchOf(r))
          /\ obs.saved = {r.pk}

\* C8: a matched record all of whose mapped fields already equal its entry's
\* mapped values is never saved by the call and stays in the store as it was,
\* and the updated-count counts only the records saved; will_model_change is
\* true exactly when some mapped field differs.
C8_NoOpUpdate ==
    /\ \A r \in Local0 :
          (Carriers(r.username) # {} /\ r.email = EntryMail(MatchOf(r)))
              => r.pk \notin obs.saved /\ r \in db
    /\ InCall => syn.updated_model_counter = obs.counter0 + Cardinality(obs.saved)
    /\ \A j \in 1..Len(Entries) : \A r \in db :
          WellFormed(Entries[j])
              => (will_model_change(
                      generate_value_map(attribute_map, Entries[j].attributes).value_map, r)
                  <=> (r.username # EntryName(Entries[j]) \/ r.email # EntryMail(Entries[j])))

\* a record equal to its entry went through a whole pass unsaved, count unchanged
C8_Unchanged ==
    /\ Finished
    /\ syn.updated_model_counter = 0
    /\ \E r \in Local0 :
          /\ Carriers(r.username) # {}
          /\ r.email = EntryMail(MatchOf(r))
          /\ r \in db

----------------------------------------------------------------------------
(* C9: rename detection *)

\* C9: for a record linked by one LDAPSyncRecord to D1 whose matching entry
\* has dn D2 # D1, after sync() that same LDAPSyncRecord has
\* distinguished_name D2 and a later updated_at, and it is still the only
\* LDAPSyncRecord of the record.
C9_Rename ==
    Finished =>
        \A r \in Local0 : \A x0 \in obs.xref0 :
            (/\ XrefOf(obs.xref0, r.pk) = {x0}
             /\ Carriers(r.username) # {}
             /\ MatchOf(r).dn # x0.distinguished_name)
                => \E x \in xref :
                      /\ x.pk = x0.pk
                      /\ x.distinguished_name = MatchOf(r).dn
                      /\ x.updated_at > x0.updated_at
                      /\ XrefOf(xref, r.pk) = {x}

\* the same statement for records whose unique value one entry only carries
C9_RenameSoleEntry ==
    Finished =>
        \A r \in Local0 : \A x0 \in obs.xref0 :
            (/\ XrefOf(obs.xref0, r.pk) = {x0}
             /\ Cardinality(Carriers(r.username)) = 1
             /\ MatchOf(r).dn # x0.distinguished_name)
                => \E x \in xref :
                      /\ x.pk = x0.pk
                      /\ x.distinguished_name = MatchOf(r).dn
                      /\ x.updated_at > x0.updated_at
                      /\ XrefOf(xref, r.pk) = {x}

----------------------------------------------------------------------------
(* C10: removal policy DELETE *)

\* C10: after sync() under DELETE, every record of the local record set whose
\* unique value no processed entry carried is gone from the store, and every
\* record a processed entry matched is still there.
C10_Delete ==
    (Finished /\ syn.removal_action_v = DELETE)
        => \A r \in Local0 :
              IF Carriers(r.username) = {}
              THEN \A t \in db : t.pk # r.pk
              ELSE \E t \in db : t.pk = r.pk

\* one pass under DELETE removed an orphan and kept a matched record
C10_Deleted ==
    /\ Finished
    /\ syn.removal_action_v = DELETE
    /\ \E r \in Local0 : Carriers(r.username) = {} /\ r \in obs.db0 /\ r \notin db
    /\ \E r \in Local0 : Carriers(r.username) # {} /\ \E t \in db : t.pk = r.pk

----------------------------------------------------------------------------
(* C6: paging completeness *)

\* C6: a search whose page size is p > 1, against a directory that serves at
\* most p entries per request and a continuation cookie, returns exactly the
\* entries of the result set, each once.
C6_PagingComplete ==
    (srch.pc = "done" /\ srch.paged_size > 1)
        => /\ Len(srch.results) = Len(conn.directory)
           /\ Range(srch.results) = Range(conn.directory)

\* a 14-entry result set read with page size 5 came back as its first page
C6_FirstPageOnly ==
    /\ srch.pc = "done"
    /\ Len(conn.directory) = MaxResults
    /\ srch.self_paged_size = SmallPage
    /\ srch.kw_paged_size = 0
    /\ Len(srch.results) = SmallPage

----------------------------------------------------------------------------
(* C11: removal policies that do not act *)

\* the removal action of the pass is NOTHING, or SUSPEND on a model without
\* is_active
InertRemoval ==
    \/ syn.removal_action_v = NOTHING
    \/ syn.removal_action_v = SUSPEND /\ ~syn.has_is_active

\* C11: under NOTHING, and under SUSPEND on a model without is_active, after
\* sync() every record of the local record set whose unique value no processed
\* entry carried is still in the store with every field as it was.
C11_InertRemoval ==
    (Finished /\ InertRemoval)
        => \A r \in Local0 :
              (Carriers(r.username) = {} /\ r \in obs.db0) => r \in db

\* a pass under SUSPEND without is_active computed an orphan and left it alone
C11_OrphanKept ==
    /\ Finished
    /\ syn.removal_action_v = SUSPEND
    /\ ~syn.has_is_active
    /\ \E r \in Local0 :
          /\ Carriers(r.username) = {}
          /\ r.pk \in obs.orphans
          /\ r \in db

----------------------------------------------------------------------------
(* C12: missing-field skip *)

\* a search hit that lacks an attribute of the correspondence
Malformed(e) == e.type = "searchResEntry" /\ ~WellFormed(e)

\* C12: the loop iteration for a search entry that lacks a mapped attribute
\* only moves on to the next entry: it stages, saves and links nothing, does
\* not end the call, and leaves the Synchronizer and the store exactly as the
\* next entry would have found them without it.
C12_MissingFieldSkip ==
    [][(Walking /\ Malformed(Entries[i]))
          => /\ i' = i + 1
             /\ pc' = pc
             /\ UNCHANGED <<syn, db, xref, nextPk, obs>>]_vars

\* a pass met a malformed entry first, then created a record from the next
\* entry, and returned
C12_SkippedThenCreated ==
    /\ Finished
    /\ Len(Entries) = 2
    /\ Malformed(Entries[1])
    /\ WellFormed(Entries[2])
    /\ Cardinality(obs.created) = 1

----------------------------------------------------------------------------
(* C13: run state per pass *)

\* the run state of a Synchronizer as __init__ leaves it
EmptyRunState(s) ==
    /\ s.uniquename_dn_map = EmptyDict
    /\ s.unsaved_models_v = <<>>
    /\ s.updated_model_counter = 0

\* C13: when sync() has returned, the unique-name to distinguishedName map,
\* the staged list and the counters of the Synchronizer are empty and zero
\* again, and a later sync() on the same object begins with an empty staged
\* list and zero counters.
C13_RunStatePerPass ==
    /\ Finished => EmptyRunState(syn)
    /\ obs.reused => (obs.staged0 = 0 /\ obs.counter0 = 0)

\* a second sync() on the same object began with the first call's staged
\* records still in the list
C13_CarriedOver ==
    /\ pc = "sync"
    /\ obs.reused
    /\ obs.staged0 > 0
    /\ syn.uniquename_dn_map # EmptyDict

----------------------------------------------------------------------------
(* C14: page size precondition *)

\* C14: no request reaches the directory with a page size of 1 or less,
\* whether the size came from the constructor or from the paged_size argument
\* of search.
C14_PageSizePrecondition ==
    \A j \in 1..Len(conn.requests) : conn.requests[j].paged_size > 1

\* a reader constructed with an accepted size sent a request of page size 1
\* that the call asked for
C14_SmallPageRequested ==
    /\ srch.pc = "done"
    /\ srch.self_paged_size > 1
    /\ srch.kw_paged_size = 1
    /\ Len(conn.requests) >= 1
    /\ conn.requests[1].paged_size = 1

----------------------------------------------------------------------------
(* C15: fresh first page *)

RECURSIVE DePage(_, _, _, _)
\* lines 330-333 as a function: the pages that follow while a cookie comes back
DePage(c, paged_size, cookie, results) ==
    IF cookie = 0 THEN results
    ELSE LET c1 == Serve(c, paged_size, cookie)
         IN DePage(c1, paged_size, c1.cookie, results \o c1.response)

\* search() as a function of the directory and of its arguments
search(c, self_paged_size, kw_paged_size, kw_paged_cookie) ==
    LET paged_size == IF kw_paged_size # 0 THEN kw_paged_size ELSE self_paged_size
        c1 == Serve(c, paged_size, FirstCookie(kw_paged_cookie))
    IN IF FollowCookie(c1.response, self_paged_size)
       THEN DePage(c1, paged_size, c1.cookie, c1.response)
       ELSE c1.response

\* C15: whatever cookie the caller passes, the first request of a search
\* carries none, and the search returns what the same search returns when it
\* is called without a cookie.
C15_FreshFirstPage ==
    /\ Len(conn.requests) >= 1 => conn.requests[1].paged_cookie = 0
    /\ srch.pc = "done"
          => srch.results =
                search([NoConnection EXCEPT !.directory = conn.directory,
                                            !.limit = conn.limit],
                       srch.self_paged_size, srch.kw_paged_size, 0)

\* a search given a cookie read several pages and returned them from the first
\* entry on
C15_CookieDropped ==
    /\ srch.pc = "done"
    /\ srch.kw_paged_cookie # 0
    /\ Len(conn.requests) >= 2
    /\ Len(srch.results) > srch.kw_paged_cookie
    /\ srch.results[1] = 1

----------------------------------------------------------------------------
(* generate_value_map called on its own *)

MaxPairs == 3       \* most pairs of an attribute correspondence

LdapAttributes == {"uid", "mail", "cn"}
LocalFields == {"username", "email"}
\* raw values ldap3 hands over: a string, an empty list, a list of two (a
\* tuple is reduced as a list is, line 285)
RawValues == {Scalar("x"), List(<<>>), List(<<"y", "x">>)}

\* an attribute correspondence is a dict: no ldap attribute is a key twice
Correspondences ==
    {m \in SeqsUpTo(LdapAttributes \X LocalFields, MaxPairs) :
        \A j, h \in 1..Len(m) : m[j][1] = m[h][1] => j = h}

\* the attribute bags of an entry
Bags == UNION {[S -> RawValues] : S \in SUBSET LdapAttributes}

\* generate_value_map(attribute_map, ldap_attribute_values) returns or raises;
\* nothing in it assigns to either argument
GenerateValueMap ==
    /\ call.pc = "called"
    /\ LET g == generate_value_map(call.attribute_map, call.ldap_attribute_values)
       IN call' = [call EXCEPT !.pc = IF g.ok THEN "returned" ELSE "raised",
                               !.value_map = g.value_map,
                               !.field = g.field]
    /\ UNCHANGED <<syncVars, searchVars, cmd>>

InitMap ==
    /\ \E m \in Correspondences : \E b \in Bags :
          call = [NoCall EXCEPT !.pc = "called", !.attribute_map = m,
                                !.ldap_attribute_values = b, !.given = <<m, b>>]
    /\ InitSyncIdle
    /\ InitSearchIdle
    /\ cmd = NoCommand

NextMap == GenerateValueMap

SpecMap == InitMap /\ [][NextMap]_vars

----------------------------------------------------------------------------
(* C16: attribute mapping result *)

\* the pairs of the correspondence given whose ldap attribute the bag lacks
AbsentPairs ==
    {j \in 1..Len(call.given[1]) : call.given[1][j][1] \notin DOMAIN call.given[2]}

\* what the claim says a raw value is mapped to
ReducedValue(raw) ==
    IF ~raw.list THEN raw.items[1]
    ELSE IF raw.items = <<>> THEN None
    ELSE Head(raw.items)

\* C16: generate_value_map raises MissingLdapField naming the first attribute
\* of the correspondence that the bag lacks; when the bag lacks none it
\* returns a map whose keys are exactly the local fields of the correspondence,
\* each with the scalar, the first element of the list, or None for an empty
\* list, of the attribute mapped to it (the last such attribute when two
\* are mapped to one field); either way both arguments are as they were given.
C16_ValueMapResult ==
    call.pc \in {"returned", "raised"} =>
        LET m == call.given[1]
            b == call.given[2]
        IN /\ call.attribute_map = m
           /\ call.ldap_attribute_values = b
           /\ IF AbsentPairs # {}
              THEN /\ call.pc = "raised"
                   /\ \E j \in AbsentPairs :
                         /\ \A h \in AbsentPairs : j <= h
                         /\ call.field = m[j][1]
              ELSE /\ call.pc = "returned"
                   /\ DOMAIN call.value_map = {m[j][2] : j \in 1..Len(m)}
                   /\ \A j \in 1..Len(m) :
                         (\A h \in (j + 1)..Len(m) : m[h][2] # m[j][2])
                            => call.value_map[m[j][2]] = ReducedValue(b[m[j][1]])

\* a call returned a map of two fields, one reduced from a list of two and
\* one from an empty list
C16_ReducedBoth ==
    /\ call.pc = "returned"
    /\ DOMAIN call.value_map = LocalFields
    /\ call.value_map["username"] = "y"
    /\ call.value_map["email"] = None

----------------------------------------------------------------------------
(* C17: unique-field configuration check *)

\* the local field names of the Synchronizer's attribute map
MapFields == {syn.attribute_map_v[j][2] : j \in 1..Len(syn.attribute_map_v)}

\* C17: a Synchronizer whose unique field is not among the local fields of
\* its attribute map writes nothing and removes nothing, never gets as far as
\* the removal step, and its run ends in a configuration failure, whatever
\* the remote entries are.
C17_UniqueFieldCheck ==
    unique_name_field \notin MapFields
        => /\ db = obs.db0
           /\ xref = obs.xref0
           /\ pc \notin {"remove", "done"}
           /\ pc = "failed" => obs.error = "ImproperlyConfigured"

\* such a Synchronizer was given no entry it could read, ran to the end and
\* deleted a local record
C17_RemovedUnchecked ==
    /\ unique_name_field \notin MapFields
    /\ Finished
    /\ obs.error = None
    /\ \E r \in obs.db0 : r \notin db

----------------------------------------------------------------------------
(* C18: value application error *)

\* C18: when the attribute map names a local field the model lacks, a sync()
\* that failed at an entry matching a local record failed with
\* UnableToApplyValueMapError, having written nothing, and no walk gets past
\* an entry that matches a local record.
C18_ValueApplicationError ==
    (unique_name_field \in MapFields /\ ~(MapFields \subseteq ModelFields))
        => /\ (/\ pc = "failed"
               /\ i <= Len(Entries)
               /\ WellFormed(Entries[i])
               /\ EntryName(Entries[i]) \in DOMAIN obs.local0)
                  => /\ obs.error = "UnableToApplyValueMapError"
                     /\ db = obs.db0
                     /\ xref = obs.xref0
           /\ pc \in {"sync", "remove", "done"}
                 => \A j \in 1..(i - 1) :
                       ~(/\ j <= Len(Entries)
                         /\ WellFormed(Entries[j])
                         /\ EntryName(Entries[j]) \in DOMAIN obs.local0)

\* a pass with such a map stopped at the first entry, which matched a local
\* record, with the AttributeError of will_model_change
C18_PlainAttributeError ==
    /\ ~(MapFields \subseteq ModelFields)
    /\ pc = "failed"
    /\ obs.error = "AttributeError"
    /\ i = 1
    /\ EntryName(Entries[1]) \in DOMAIN obs.local0

----------------------------------------------------------------------------
(* C19: store failure semantics *)

\* C19: when a write to the store raised during sync(), the call ended with
\* that error; every row the pass had bulk-created, saved, linked or relinked
\* before is in the store as written; no row was removed and the removal step
\* did not run; and when the failing write was a save inside the loop, nothing
\* was bulk-created afterwards.
C19_StoreFailure ==
    obs.error \in {"DatabaseError", "IntegrityError"}
        => /\ pc = "failed"
           /\ \A p \in obs.created : \E r \in db : r.pk = p
           /\ \A p \in obs.saved : \E r \in db : r.pk = p /\ r \notin obs.db0
           /\ \A p \in obs.linked \cup obs.relinked :
                 \E x \in xref : x.pk = p /\ x \notin obs.xref0
           /\ \A r \in obs.db0 : \E q \in db : q.pk = r.pk
           /\ \A x \in obs.xref0 : \E y \in xref : y.pk = x.pk
           /\ obs.orphans = {}
           /\ obs.targets = {}
           /\ obs.site \in {"save", "xref_save"} => (obs.created = {} /\ k = 0)
           /\ obs.site \in {"save", "xref_save", "bulk_create"}
                 => i <= Len(Entries) \/ k < Len(syn.unsaved_models_v)

\* the second bulk_create chunk failed and the record of the first chunk is
\* in the store
C19_EarlierChunkKept ==
    /\ pc = "failed"
    /\ obs.site = "bulk_create"
    /\ Cardinality(obs.created) = 1
    /\ \E r \in db : r.pk \in obs.created

----------------------------------------------------------------------------
(* The syncldap management command *)

USER_REMOVAL_OPTIONS == {NOTHING, SUSPEND, DELETE}
GROUP_REMOVAL_OPTIONS == {NOTHING, DELETE}

\* the group attribute map of the settings
group_attribute_map == << <<"cn", "name">> >>

\* Django settings the command reads. None: the setting is absent (for a
\* removal action the default, NOTHING, then applies)
SettingsSets ==
    [LDAP_CONFIG : BOOLEAN,
     LDAP_SYNC_BASE : BOOLEAN,
     LDAP_SYNC_USER_ATTRIBUTES : {None, attribute_map, NoUniqueMap},
     LDAP_SYNC_USER_REMOVAL_ACTION : {None, SUSPEND, DELETE, "PURGE"},
     LDAP_SYNC_GROUP_ATTRIBUTES : {None, group_attribute_map},
     LDAP_SYNC_GROUP_REMOVAL_ACTION : {None, SUSPEND, DELETE, "PURGE"},
     LDAP_SYNC_USERS : BOOLEAN,
     LDAP_SYNC_GROUPS : BOOLEAN,
     LDAP_SYNC_GROUP_MEMBERSHIP : BOOLEAN]

\* getattr(settings, name, default)
Setting(value, default) == IF value = None THEN default ELSE value

\* settings read without the two removal-action checks
load_settings_unchecked(settings) ==
    IF \/ ~settings.LDAP_SYNC_BASE
       \/ settings.LDAP_SYNC_USER_ATTRIBUTES = None
       \/ unique_name_field \notin
             {settings.LDAP_SYNC_USER_ATTRIBUTES[j][2] :
                 j \in 1..Len(settings.LDAP_SYNC_USER_ATTRIBUTES)}
       \/ settings.LDAP_SYNC_GROUP_ATTRIBUTES = None
    THEN "ImproperlyConfigured"
    ELSE None

\* load_settings(): the exception it raises, None when it returns, for the
\* default user model, whose USERNAME_FIELD is 'username'. The bases
\* (180-186, 219-225), the user map (188-191), the user removal action
\* (199-201), the username field (213-214), the group map (227-230) and the
\* group removal action (234-236) are checked in this order.
load_settings(settings) ==
    IF ~settings.LDAP_SYNC_BASE THEN "ImproperlyConfigured"
    ELSE IF settings.LDAP_SYNC_USER_ATTRIBUTES = None THEN "ImproperlyConfigured"
    ELSE IF Setting(settings.LDAP_SYNC_USER_REMOVAL_ACTION, NOTHING)
                \notin USER_REMOVAL_OPTIONS
    THEN "ImproperlyConfigured"
    ELSE IF unique_name_field \notin
                {settings.LDAP_SYNC_USER_ATTRIBUTES[j][2] :
                    j \in 1..Len(settings.LDAP_SYNC_USER_ATTRIBUTES)}
    THEN "ImproperlyConfigured"
    ELSE IF settings.LDAP_SYNC_GROUP_ATTRIBUTES = None THEN "ImproperlyConfigured"
    ELSE IF Setting(settings.LDAP_SYNC_GROUP_REMOVAL_ACTION, NOTHING)
                \notin GROUP_REMOVAL_OPTIONS
    THEN "ImproperlyConfigured"
    ELSE None

\* handle(), lines 58-63: the argument check, the connection factory (which
\* reads settings.LDAP_CONFIG and opens no connection) and load_settings()
handle ==
    /\ cmd.pc = "called"
    /\ LET raised == IF cmd.has_args THEN "CommandError"
                     ELSE IF ~cmd.settings.LDAP_CONFIG THEN "AttributeError"
                     ELSE load_settings(cmd.settings)
       IN cmd' = IF raised = None THEN [cmd EXCEPT !.pc = "users"]
                 ELSE [cmd EXCEPT !.pc = "failed", !.error = raised]
    /\ UNCHANGED <<syncVars, searchVars, call>>

\* handle(), lines 64-65, sync_ldap_users(): get_ldap_users() searches the
\* directory, then get_django_users() calls self.get_django_objects, which
\* Command does not define
sync_ldap_users ==
    /\ cmd.pc = "users"
    /\ cmd' = IF cmd.settings.LDAP_SYNC_USERS
              THEN [cmd EXCEPT !.pc = "failed", !.error = "AttributeError",
                               !.searches = Append(@, "users")]
              ELSE [cmd EXCEPT !.pc = "groups"]
    /\ UNCHANGED <<syncVars, searchVars, call>>

\* handle(), lines 66-67, sync_ldap_groups(): get_ldap_groups() searches,
\* then get_django_groups() calls the same undefined method
sync_ldap_groups ==
    /\ cmd.pc = "groups"
    /\ cmd' = IF cmd.settings.LDAP_SYNC_GROUPS
              THEN [cmd EXCEPT !.pc = "failed", !.error = "AttributeError",
                               !.searches = Append(@, "groups")]
              ELSE [cmd EXCEPT !.pc = "membership"]
    /\ UNCHANGED <<syncVars, searchVars, call>>

\* handle(), lines 68-69, sync_group_membership(): it begins with
\* get_django_users()
sync_group_membership ==
    /\ cmd.pc = "membership"
    /\ cmd' = IF cmd.settings.LDAP_SYNC_GROUP_MEMBERSHIP
              THEN [cmd EXCEPT !.pc = "failed", !.error = "AttributeError"]
              ELSE [cmd EXCEPT !.pc = "done"]
    /\ UNCHANGED <<syncVars, searchVars, call>>

\* The store holds one user, linked to a distinguishedName, and two groups:
\* group 1 is linked to dn1, group 2 has no LDAPSyncRecord. user_groups is the
\* set of groups the user is in, member_of the distinguishedNames of the
\* groups the directory returns for the user, group_cache what
\* get_ldap_group_membership would read from the LDAPSyncRecords of groups.
InitCommand ==
    /\ \E a \in BOOLEAN : \E st \in SettingsSets :
       \E in_groups \in SUBSET {1, 2} : \E dns \in SUBSET DNs :
          cmd = [NoCommand EXCEPT !.pc = "called", !.has_args = a, !.settings = st,
                                  !.user_groups = in_groups, !.member_of = dns,
                                  !.group_cache = [d \in {"dn1"} |-> 1]]
    /\ InitSyncIdle
    /\ InitSearchIdle
    /\ call = NoCall

NextCommand ==
    \/ handle
    \/ sync_ldap_users
    \/ sync_ldap_groups
    \/ sync_group_membership

SpecCommand == InitCommand /\ [][NextCommand]_vars

----------------------------------------------------------------------------
(* C20: removal-action validation in the syncldap command *)

BadRemovalAction ==
    \/ Setting(cmd.settings.LDAP_SYNC_USER_REMOVAL_ACTION, NOTHING)
          \notin {NOTHING, SUSPEND, DELETE}
    \/ Setting(cmd.settings.LDAP_SYNC_GROUP_REMOVAL_ACTION, NOTHING)
          \notin {NOTHING, DELETE}

\* C20: when the user removal action or the group removal action of the
\* settings is not an allowed one, handle() never searches the directory and
\* never enters the users, groups or membership phase, so the store stays as
\* it was; a call without arguments that got as far as load_settings() ends
\* with ImproperlyConfigured.
C20_RemovalActionValidation ==
    BadRemovalAction
        => /\ cmd.searches = <<>>
           /\ cmd.pc \in {"called", "failed"}
           /\ db = {}
           /\ xref = {}
           /\ (cmd.pc = "failed" /\ ~cmd.has_args /\ cmd.settings.LDAP_CONFIG)
                 => cmd.error = "ImproperlyConfigured"

\* settings that are complete and ask for the users phase, but with SUSPEND
\* as the group removal action, ended handle() with ImproperlyConfigured
C20_GroupSuspendRejected ==
    /\ cmd.pc = "failed"
    /\ cmd.error = "ImproperlyConfigured"
    /\ ~cmd.has_args
    /\ load_settings_unchecked(cmd.settings) = None
    /\ cmd.settings.LDAP_CONFIG
    /\ cmd.settings.LDAP_SYNC_USERS
    /\ cmd.settings.LDAP_SYNC_USER_REMOVAL_ACTION = DELETE
    /\ cmd.settings.LDAP_SYNC_GROUP_REMOVAL_ACTION = SUSPEND

----------------------------------------------------------------------------
(* The properties of a Synchronizer, read on their own *)

MaxReads == 2       \* property reads on one Synchronizer

\* the keyword arguments of __init__ that default to None (removal_action
\* defaults to NOTHING), and the properties of the class
ArgumentNames == {"ldap_objects", "django_objects", "attribute_map",
                  "django_object_model", "unique_name_field", "removal_action"}
PropertyNames == {"ldap_objects", "django_objects", "attribute_map",
                  "django_object_model", "django_object_model_name",
                  "unique_name_field", "ldap_sync_model", "removal_action",
                  "unsaved_models"}

\* a check that finds every argument given
Configured_always(given, argument) == TRUE

\* self.<argument>_v is not None
Configured(given, argument) == argument \in given

\* Reading property name of Synchronizer s, constructed with the arguments
\* given, on a store holding rows: the exception raised (None when the read
\* returns), the value, the number of store queries made, and the object after
\* the read. django_objects returns what was passed as it is (kind says
\* whether that is a dict or a sequence of records); when nothing was passed
\* it reads self.django_object_model first, then queries the store, then
\* reads self.unique_name_field once per row.
Property(s, given, kind, name, rows) ==
    LET raise(n) == [error |-> "NotImplementedError", value |-> None, reads |-> n, s |-> s]
        return(v) == [error |-> None, value |-> v, reads |-> 0, s |-> s]
    IN CASE name = "ldap_objects" ->
              IF Configured(given, "ldap_objects") THEN return(s.ldap_objects_v) ELSE raise(0)
         [] name = "attribute_map" ->
              IF Configured(given, "attribute_map") THEN return(s.attribute_map_v) ELSE raise(0)
         [] name = "django_object_model" ->
              IF Configured(given, "django_object_model") THEN return(ContentType) ELSE raise(0)
         [] name = "django_object_model_name" ->
              IF Configured(given, "django_object_model") THEN return(ContentType) ELSE raise(0)
         [] name = "unique_name_field" ->
              IF Configured(given, "unique_name_field") THEN return(unique_name_field)
              ELSE raise(0)
         [] name = "ldap_sync_model" -> return("LDAPSyncRecord")
         [] name = "removal_action" -> return(s.removal_action_v)
         [] name = "unsaved_models" -> return(s.unsaved_models_v)
         [] name = "django_objects" ->
              IF s.django_objects_set
              THEN return([kind |-> kind, items |-> s.django_objects_v])
              ELSE IF ~Configured(given, "django_object_model") THEN raise(0)
              ELSE IF ~Configured(given, "unique_name_field") /\ rows # {} THEN raise(1)
              ELSE LET s1 == _django_objects(s, rows)
                   IN [error |-> None,
                       value |-> [kind |-> "dict", items |-> s1.django_objects_v],
                       reads |-> 1, s |-> s1]

\* one read of one property
ReadProperty ==
    /\ call.pc \in {"constructed", "read"}
    /\ call.n < MaxReads
    /\ \E name \in PropertyNames :
          LET o == Property(syn, call.given, call.kind, name, db)
          IN /\ syn' = o.s
             /\ call' = [call EXCEPT !.pc = "read", !.name = name, !.error = o.error,
                                     !.value = o.value, !.reads = @ + o.reads,
                                     !.n = @ + 1]
    /\ UNCHANGED <<args, pc, i, k, db, xref, nextPk, clock, passes, obs, searchVars, cmd>>

\* Synchronizer(**kwargs) with any subset of the arguments, django_objects
\* (when given) a dict or a query result of the records not exempt, on a
\* store of some of the named records
InitAccess ==
    /\ args = [ldap_objects |-> <<RefEntry>>, ldap_callable |-> TRUE,
               django_objects |-> "derived", exempt_unique_names |-> {"alice"},
               removal_action |-> DELETE, has_is_active |-> TRUE,
               bulk_create_chunk_size |-> DefaultChunkSize,
               attribute_map |-> attribute_map]
    /\ \E present \in SUBSET Names :
          /\ db = InitRows(present)
          /\ nextPk = [model |-> Cardinality(present) + 1, xref |-> 1]
    /\ xref = {}
    /\ \E given \in SUBSET ArgumentNames : \E kind \in {"dict", "sequence"} :
          /\ "django_objects" \notin given => kind = "dict"
          /\ LET a == [args EXCEPT
                          !.django_objects =
                               IF "django_objects" \in given THEN "filtered" ELSE "derived",
                          !.removal_action =
                               IF "removal_action" \in given THEN DELETE ELSE NOTHING]
                 s == Synchronizer(a, db)
             IN syn = IF kind = "sequence"
                      THEN [s EXCEPT !.django_objects_v =
                               SetToSeq({r \in db : r.username \notin a.exempt_unique_names})]
                      ELSE s
          /\ call = [pc |-> "constructed", given |-> given, kind |-> kind, name |-> None,
                     error |-> None, value |-> None, reads |-> 0, n |-> 0]
    /\ pc = "idle"
    /\ i = 1
    /\ k = 0
    /\ clock = 1
    /\ passes = 0
    /\ obs = NoObs
    /\ InitSearchIdle
    /\ cmd = NoCommand

SpecAccess == InitAccess /\ [][ReadProperty]_vars

----------------------------------------------------------------------------
(* C21: unconfigured Synchronizer *)

\* C21: on a Synchronizer constructed with no argument, a read of ldap_objects,
\* attribute_map, django_object_model, django_object_model_name,
\* unique_name_field or django_objects raises NotImplementedError,
\* removal_action reads NOTHING and unsaved_models reads the empty list; no
\* read queries the store and the store stays as it was.
C21_Unconfigured ==
    (call.pc = "read" /\ call.given = {})
        => /\ call.name \in {"ldap_objects", "attribute_map", "django_object_model",
                             "django_object_model_name", "unique_name_field",
                             "django_objects"}
                 => call.error = "NotImplementedError"
           /\ call.name = "removal_action"
                 => (call.error = None /\ call.value = NOTHING)
           /\ call.name = "unsaved_models"
                 => (call.error = None /\ call.value = <<>>)
           /\ call.reads = 0
           /\ db \in {InitRows(present) : present \in SUBSET Names}
           /\ xref = {}

\* django_objects was read on an unconfigured Synchronizer over a store that
\* holds records, and raised
C21_LocalSetRaised ==
    /\ call.pc = "read"
    /\ call.given = {}
    /\ call.name = "django_objects"
    /\ call.error = "NotImplementedError"
    /\ db # {}

----------------------------------------------------------------------------
(* C22: derived local record set *)

\* C22: the first read of django_objects on a Synchronizer that was given the
\* model and the unique field but no local record source returns the dict of
\* every record in the store, keyed by the record's unique-field value.
C22_DerivedLocalSet ==
    (/\ call.pc = "read"
     /\ call.n = 1
     /\ call.name = "django_objects"
     /\ "django_objects" \notin call.given
     /\ {"django_object_model", "unique_name_field"} \subseteq call.given)
        => /\ call.error = None
           /\ call.value.kind = "dict"
           /\ DOMAIN call.value.items = {r.username : r \in db}
           /\ \A r \in db : call.value.items[r.username] = r

\* the set was derived from a store of two records
C22_DerivedTwo ==
    /\ call.pc = "read"
    /\ call.name = "django_objects"
    /\ "django_objects" \notin call.given
    /\ call.error = None
    /\ Cardinality(db) = 2
    /\ DOMAIN call.value.items = Names

----------------------------------------------------------------------------
(* C23: local record source given as a sequence *)

\* C23: when the local record source passed to the Synchronizer is a sequence
\* of records, django_objects reads as the dict of exactly those records,
\* keyed by each record's unique-field value.
C23_SequenceSource ==
    (/\ call.pc = "read"
     /\ call.name = "django_objects"
     /\ call.kind = "sequence")
        => /\ call.error = None
           /\ call.value.kind = "dict"
           /\ DOMAIN call.value.items =
                 {r.username : r \in {t \in db : t.username \notin {"alice"}}}

\* a query result holding one record was passed and read back as it was
C23_SequenceReturned ==
    /\ call.pc = "read"
    /\ call.name = "django_objects"
    /\ call.kind = "sequence"
    /\ call.error = None
    /\ call.value.kind = "sequence"
    /\ Len(call.value.items) = 1

----------------------------------------------------------------------------
(* C24: orphan set *)

\* C24: when sync() has returned, the records the removal step computed are
\* exactly the records of the pass's local record set whose unique value no
\* processed entry carried; a record that an entry matched is no longer in
\* the Synchronizer's local record set, is not among the records the removal
\* acted on, and is in the store as active as it was.
C24_OrphanSet ==
    Finished
        => /\ obs.orphans = {r.pk : r \in {t \in Local0 : Carriers(t.username) = {}}}
           /\ \A r \in Local0 :
                 Carriers(r.username) # {}
                    => /\ r.username \notin DOMAIN syn.django_objects_v
                       /\ r.pk \notin obs.targets
                       /\ \E q \in db : q.pk = r.pk /\ q.is_active = r.is_active

\* under DELETE a pass over two local records matched one and removed the other
C24_MatchedKeptOrphanDeleted ==
    /\ Finished
    /\ syn.removal_action_v = DELETE
    /\ Cardinality(Local0) = 2
    /\ \E r, t \in Local0 :
          /\ Carriers(r.username) # {}
          /\ Carriers(t.username) = {}
          /\ obs.targets = {t.pk}
          /\ \E q \in db : q.pk = r.pk
          /\ \A q \in db : q.pk # t.pk

----------------------------------------------------------------------------
(* C25: non-hit entries are inert *)

\* C25: the loop iteration for an entry whose type is not searchResEntry only
\* moves on to the next entry, whatever attributes the entry carries: it
\* stages, saves and links nothing and adds nothing to the unique-name to
\* distinguishedName map, so the rest of the pass meets the Synchronizer and
\* the store that it would have met without the entry.
C25_NonHitInert ==
    [][(Walking /\ Entries[i].type # "searchResEntry")
          => /\ i' = i + 1
             /\ pc' = pc
             /\ UNCHANGED <<syn, db, xref, nextPk, obs>>]_vars

\* a pass met an entry of another type that carries the unique value of a
\* local record, then created a record from a search entry, and returned with
\* the local record as it was and no map entry for its unique value
C25_ReferralPassedOver ==
    /\ Finished
    /\ Len(Entries) = 2
    /\ Entries[1].type # "searchResEntry"
    /\ WellFormed(Entries[2])
    /\ Cardinality(obs.created) = 1
    /\ obs.saved = {}
    /\ \E r \in Local0 : r.username = "alice" /\ r \in db
    /\ "alice" \notin DOMAIN syn.uniquename_dn_map

----------------------------------------------------------------------------
(* C26: the unique-name to distinguishedName map after the walk *)

\* s.sync() is called again on the Synchronizer that just finished. Line 159
\* calls the ldap_objects callable anew in every sync(): the directory has
\* lost an entry since the last call, and the callable returns the entries
\* without it.
SourceChanges ==
    /\ pc = "done"
    /\ passes < MaxPasses
    /\ Entries # <<>>
    /\ syn.ldap_callable
    /\ passes' = passes + 1
    /\ i' = 1
    /\ k' = 0
    /\ pc' = "sync"
    /\ obs' = NoObs
    /\ syn' = [syn EXCEPT !.ldap_objects_v = Tail(@)]
    /\ UNCHANGED <<args, db, xref, nextPk, clock, searchVars, cmd, call>>

\* passes over a directory in which no two search entries carry the same
\* unique value
InitReuse ==
    /\ Init
    /\ args.ldap_callable
    /\ \A j, h \in 1..Len(args.ldap_objects) :
          (/\ WellFormed(args.ldap_objects[j])
           /\ WellFormed(args.ldap_objects[h])
           /\ EntryName(args.ldap_objects[j]) = EntryName(args.ldap_objects[h])) => j = h

NextReuse ==
    \/ Next
    \/ SourceChanges

SpecReuse == InitReuse /\ [][NextReuse]_vars

\* C26: once the walk of a sync() call is over, the map holds for every search
\* entry of the call that mapped successfully its unique value with the
\* entry's distinguishedName, and holds no key that did not come from such an
\* entry.
C26_NameToDnMap ==
    LET Hits == {j \in 1..Len(Entries) : WellFormed(Entries[j])}
    IN ((pc = "sync" /\ i > Len(Entries)) \/ pc \in {"remove", "done"})
          => /\ \A j \in Hits :
                   /\ EntryName(Entries[j]) \in DOMAIN syn.uniquename_dn_map
                   /\ syn.uniquename_dn_map[EntryName(Entries[j])] = Entries[j].dn
             /\ DOMAIN syn.uniquename_dn_map = {EntryName(Entries[j]) : j \in Hits}

\* a second sync() on the same Synchronizer returned with a key in the map
\* that no search entry of the call carries
C26_StaleKey ==
    /\ Finished
    /\ obs.reused
    /\ \E n \in DOMAIN syn.uniquename_dn_map : Carriers(n) = {}

----------------------------------------------------------------------------
(* C27: LDAPSyncRecords only for persisted records *)

\* C27: every LDAPSyncRecord a step of sync() adds to the store points to a
\* row of the model table, by the pk the store gave that row. The walk adds
\* none for a record the call has staged or bulk-created; the step after the
\* bulk create adds them only for rows the re-fetch by unique value returns,
\* each with the distinguishedName the map holds for the row's unique value.
C27_LinkOnlyPersisted ==
    [][\A x \in xref' :
          x.pk \notin {y.pk : y \in xref}
             => \E r \in db' :
                   /\ r.pk = x.object_id
                   /\ r.pk # 0
                   /\ ~Linking => r.pk \notin obs.created
                   /\ Linking
                         => /\ \E j \in 1..Len(syn.unsaved_models_v) :
                                  syn.unsaved_models_v[j][unique_name_field]
                                     = r[unique_name_field]
                            /\ x.distinguished_name
                                  = syn.uniquename_dn_map[r[unique_name_field]]]_vars

\* a pass staged a record for bob, bulk-created it and then linked the row
\* the store holds for bob to the distinguishedName of bob's entry
C27_CreatedThenLinked ==
    /\ Finished
    /\ Len(Entries) = 1
    /\ WellFormed(Entries[1])
    /\ EntryName(Entries[1]) = "bob"
    /\ Entries[1].dn = "dn2"
    /\ Cardinality(obs.created) = 1
    /\ Cardinality(obs.linked) = 1
    /\ \E r \in db : \E x \in xref :
          /\ r.pk \in obs.created
          /\ x.pk \in obs.linked
          /\ x.object_id = r.pk
          /\ x.distinguished_name = "dn2"

----------------------------------------------------------------------------
(* C28: a removal action supplied by the caller *)

\* C28: a sync() that was given a function of the caller's as removal action
\* returns having applied it to the orphaned local records: the records the
\* removal step acted on are the records it found orphaned.
C28_CallerRemoval ==
    (Finished /\ syn.removal_action_v = RemovalFunction)
        => obs.targets = obs.orphans

\* a pass with a function as removal action returned with an orphaned record
\* that the removal step did not act on
C28_FunctionNotCalled ==
    /\ Finished
    /\ syn.removal_action_v = RemovalFunction
    /\ obs.orphans # {}
    /\ obs.targets = {}
    /\ db = obs.db0

----------------------------------------------------------------------------
(* chunked_bulk_create on its own *)

MaxRecords == 4
MaxChunk == 3

\* a slice that takes one element too many
Slice_inclusive(seq, a, b) == SubSeq(seq, a + 1, Min(b + 1, Len(seq)))

\* seq[a:b] for 0 <= a <= b: the elements at the 0-based positions a..b-1
\* that exist
Slice(seq, a, b) == SubSeq(seq, a + 1, Min(b, Len(seq)))

\* line 255-256: one iteration of the for loop over range(0, len, chunk_size),
\* one bulk_create call with the slice
chunked_bulk_create ==
    /\ call.pc = "chunking"
    /\ call.i < Len(call.unsaved_models)
    /\ call' = [call EXCEPT
                  !.calls = Append(@, Slice(call.unsaved_models, call.i,
                                            call.i + call.chunk_size)),
                  !.i = @ + call.chunk_size]
    /\ UNCHANGED <<syncVars, searchVars, cmd>>

\* the range is exhausted: the function returns
chunked_bulk_create_returns ==
    /\ call.pc = "chunking"
    /\ call.i >= Len(call.unsaved_models)
    /\ call' = [call EXCEPT !.pc = "returned"]
    /\ UNCHANGED <<syncVars, searchVars, cmd>>

\* chunked_bulk_create(model, unsaved_models, chunk_size) is called with a
\* list of unsaved instances, told apart by their unique value only, and a
\* chunk size of at least 1
InitChunk ==
    /\ InitSyncIdle
    /\ InitSearchIdle
    /\ cmd = NoCommand
    /\ \E unsaved_models \in SeqsUpTo(Names, MaxRecords) : \E chunk_size \in 1..MaxChunk :
          call = [pc |-> "chunking", unsaved_models |-> unsaved_models,
                  chunk_size |-> chunk_size, i |-> 0, calls |-> <<>>]

NextChunk ==
    \/ chunked_bulk_create
    \/ chunked_bulk_create_returns

SpecChunk == InitChunk /\ [][NextChunk]_vars

----------------------------------------------------------------------------
(* C29: chunked create *)

\* C29: when chunked_bulk_create returns for a list of n records and a chunk
\* size c of at least 1, it has issued ceil(n / c) bulk_create calls, each
\* with at least 1 and at most c records, and the records of the calls, put
\* one after the other in call order, are the list; for the empty list it has
\* issued no call.
C29_ChunkedCreate ==
    LET n == Len(call.unsaved_models)
        c == call.chunk_size
        RECURSIVE Concat(_)
        Concat(chunks) == IF chunks = <<>> THEN <<>>
                          ELSE chunks[1] \o Concat(Tail(chunks))
    IN call.pc = "returned"
          => /\ Len(call.calls) = (n + c - 1) \div c
             /\ \A j \in 1..Len(call.calls) : Len(call.calls[j]) \in 1..c
             /\ Concat(call.calls) = call.unsaved_models
             /\ n = 0 => call.calls = <<>>

\* four records were created with chunk size 3: a call with three records,
\* then a call with the last one
C29_FullThenPartialChunk ==
    /\ call.pc = "returned"
    /\ Len(call.unsaved_models) = 4
    /\ call.chunk_size = 3
    /\ Len(call.calls) = 2
    /\ Len(call.calls[1]) = 3
    /\ Len(call.calls[2]) = 1

----------------------------------------------------------------------------
(* C30: the paging loop *)

\* C30: every request search sends is answered in one of two ways. After a
\* response that carries a cookie, search goes on to send the request again,
\* with the page size it chose and that cookie; after a response whose cookie
\* is empty it stops with the results.
C30_PagingLoop ==
    [][srch.pc \in {"ready", "loop"}
          => /\ conn'.cookie # 0
                   => /\ srch'.pc = "loop"
                      /\ srch'.cookie = conn'.cookie
                      /\ srch.pc = "loop" => srch'.paged_size = srch.paged_size
             /\ conn'.cookie = 0 => srch'.pc = "done"]_vars

\* search returned after one request although the response to it carried a
\* cookie
C30_StoppedWithCookie ==
    /\ srch.pc = "done"
    /\ Len(conn.requests) = 1
    /\ conn.cookie # 0
    /\ Len(srch.results) < Len(conn.directory)

----------------------------------------------------------------------------
(* C31: the per-call page size *)

\* C31: a search called with the per-call argument paged_size = p, p > 1, on
\* a reader constructed with another page size returns the entries that a
\* search without the argument returns on a reader constructed with page
\* size p, against the same directory.
C31_PerCallPageSize ==
    (/\ srch.pc = "done"
     /\ srch.kw_paged_size > 1
     /\ srch.self_paged_size # srch.kw_paged_size)
        => srch.results =
              search([NoConnection EXCEPT !.directory = conn.directory,
                                          !.limit = conn.limit],
                     srch.kw_paged_size, 0, 0)

\* a reader constructed with page size 2 and called with page size 5 returned
\* all 14 entries, of which a reader constructed with page size 5 returns the
\* first 5
C31_ReadersDiffer ==
    /\ srch.pc = "done"
    /\ srch.self_paged_size = 2
    /\ srch.kw_paged_size = SmallPage
    /\ Len(conn.directory) = MaxResults
    /\ Len(srch.results) = MaxResults
    /\ Len(search([NoConnection EXCEPT !.directory = conn.directory,
                                       !.limit = conn.limit],
                  SmallPage, 0, 0)) = SmallPage

----------------------------------------------------------------------------
(* Two sync() passes at the same time *)

\* a scheduler that hands over only between passes
Switch_between_passes ==
    /\ pc \notin {"sync", "remove"}
    /\ syn' = call.syn
    /\ pc' = call.pc
    /\ i' = call.i
    /\ k' = call.k
    /\ obs' = call.obs
    /\ call' = [syn |-> syn, pc |-> pc, i |-> i, k |-> k, obs |-> obs]
    /\ UNCHANGED <<args, db, xref, nextPk, clock, passes, searchVars, cmd>>

\* Two processes each hold a Synchronizer for the same model and the same
\* entries; syn, pc, i, k and obs are those of the process that takes the next
\* step, call keeps those of the other one. sync() (lines 157-240) takes no
\* lock and opens no transaction, so the other process can take over between
\* any two store operations.
Switch ==
    /\ syn' = call.syn
    /\ pc' = call.pc
    /\ i' = call.i
    /\ k' = call.k
    /\ obs' = call.obs
    /\ call' = [syn |-> syn, pc |-> pc, i |-> i, k |-> k, obs |-> obs]
    /\ UNCHANGED <<args, db, xref, nextPk, clock, passes, searchVars, cmd>>

\* both Synchronizers are constructed from the same arguments on the same store
InitRace ==
    /\ args \in ArgSets
    /\ args.ldap_callable
    /\ args.django_objects = "derived"
    /\ args.exempt_unique_names = {}
    /\ args.removal_action \in {NOTHING, DELETE}
    /\ args.has_is_active
    /\ args.bulk_create_chunk_size = DefaultChunkSize
    /\ InitStore
    /\ pc = "ready"
    /\ i = 1
    /\ k = 0
    /\ clock = 1
    /\ passes = 0
    /\ obs = NoObs
    /\ InitSearchIdle
    /\ cmd = NoCommand
    /\ call = [syn |-> syn, pc |-> pc, i |-> i, k |-> k, obs |-> obs]

NextRace ==
    \/ SyncCall
    \/ WalkEntry
    \/ BulkCreateChunk
    \/ LinkCreated
    \/ Remove
    \/ Switch

SpecRace == InitRace /\ [][NextRace]_vars

----------------------------------------------------------------------------
(* C32: no protection against concurrent passes *)

\* C32: nothing keeps a second pass from taking its steps while a pass is
\* under way, and each pass creates what it staged whatever the other did:
\* when two passes are both past their bulk create, the store holds, for
\* every unique value both of them staged, a record from each.
C32_NoSerialisation ==
    LET this == [syn |-> syn, pc |-> pc, i |-> i, k |-> k, obs |-> obs]
        PastCreate(c) ==
            /\ ~c.obs.reused
            /\ \/ c.pc \in {"remove", "done"}
               \/ c.pc = "failed" /\ c.obs.error = "IntegrityError"
               \/ /\ c.pc = "sync"
                  /\ c.i > Len(c.syn.ldap_objects_v)
                  /\ c.k >= Len(c.syn.unsaved_models_v)
        Staged(c) == {c.syn.unsaved_models_v[j][unique_name_field]
                         : j \in 1..Len(c.syn.unsaved_models_v)}
    IN /\ ENABLED Switch
       /\ (PastCreate(this) /\ PastCreate(call))
             => \A n \in Staged(this) \cap Staged(call) :
                   \E r \in db : \E t \in db :
                      /\ r[unique_name_field] = n
                      /\ t[unique_name_field] = n
                      /\ r.pk \in obs.created
                      /\ t.pk \in call.obs.created

\* two passes over one entry for bob, on a store without bob, ran at the same
\* time: both staged bob before either created him, the store holds two
\* records for bob, and the pass that linked last ended in IntegrityError
C32_BothCreated ==
    /\ pc = "failed"
    /\ obs.error = "IntegrityError"
    /\ call.pc = "done"
    /\ Len(Entries) = 1
    /\ obs.db0 = {}
    /\ call.obs.db0 = {}
    /\ Cardinality(obs.created) = 1
    /\ Cardinality(call.obs.created) = 1
    /\ obs.created # call.obs.created
    /\ Cardinality({r \in db : r[unique_name_field] = "bob"}) = 2

----------------------------------------------------------------------------
(* C33: phase order of the syncldap command *)

\* C33: a run of the command that was called without arguments and whose
\* settings load_settings() accepts goes through the passes its settings
\* enable, users, then groups, then membership, each to completion: when
\* handle() is over it has returned normally and has searched the directory
\* for the users and for the groups pass exactly when the pass was enabled,
\* in that order.
C33_PhaseOrder ==
    LET settings == cmd.settings
        users == IF settings.LDAP_SYNC_USERS THEN <<"users">> ELSE <<>>
        groups == IF settings.LDAP_SYNC_GROUPS THEN <<"groups">> ELSE <<>>
    IN (/\ cmd.pc \in {"done", "failed"}
        /\ ~cmd.has_args
        /\ settings.LDAP_CONFIG
        /\ load_settings(settings) = None)
          => /\ cmd.pc = "done"
             /\ cmd.searches = users \o groups

\* a run with valid settings that enable the three passes ended inside the
\* users pass, after its directory search, with AttributeError; the groups
\* and the membership pass never began
C33_EndedInUsersPass ==
    /\ cmd.pc = "failed"
    /\ cmd.error = "AttributeError"
    /\ ~cmd.has_args
    /\ cmd.settings.LDAP_CONFIG
    /\ load_settings(cmd.settings) = None
    /\ cmd.settings.LDAP_SYNC_USERS
    /\ cmd.settings.LDAP_SYNC_GROUPS
    /\ cmd.settings.LDAP_SYNC_GROUP_MEMBERSHIP
    /\ cmd.searches = <<"users">>

----------------------------------------------------------------------------
(* C34: membership reconciliation *)

\* C34: once the membership pass of a run is over, the linked user is in
\* exactly the local groups whose LDAPSyncRecord carries the
\* distinguishedName of a group the directory returned for the user; a
\* directory group without an LDAPSyncRecord adds nothing.
C34_Membership ==
    (/\ cmd.pc \in {"done", "failed"}
     /\ ~cmd.has_args
     /\ cmd.settings.LDAP_CONFIG
     /\ load_settings(cmd.settings) = None
     /\ ~cmd.settings.LDAP_SYNC_USERS
     /\ ~cmd.settings.LDAP_SYNC_GROUPS
     /\ cmd.settings.LDAP_SYNC_GROUP_MEMBERSHIP)
        => cmd.user_groups
              = {cmd.group_cache[d] : d \in cmd.member_of \cap DOMAIN cmd.group_cache}

\* the membership pass of a run that enabled nothing else ended with
\* AttributeError; the directory has the user in the group of dn1, and the
\* user is still in group 2 only
C34_MembershipUntouched ==
    /\ cmd.pc = "failed"
    /\ cmd.error = "AttributeError"
    /\ cmd.searches = <<>>
    /\ ~cmd.settings.LDAP_SYNC_USERS
    /\ ~cmd.settings.LDAP_SYNC_GROUPS
    /\ cmd.settings.LDAP_SYNC_GROUP_MEMBERSHIP
    /\ cmd.member_of = {"dn1"}
    /\ cmd.user_groups = {2}

----------------------------------------------------------------------------
(* C35: uniqueness of the unique field *)

\* C35: when no two records of the store share a unique value as sync() is
\* called, no two records of the store share one when it has returned.
C35_UniquenessKept ==
    (/\ Finished
     /\ \A r, t \in obs.db0 : r[unique_name_field] = t[unique_name_field] => r = t)
        => \A r, t \in db : r[unique_name_field] = t[unique_name_field] => r = t

\* the first pass of a Synchronizer that derived its local record set, over
\* two search entries that both carry bob, on a store without bob, returned
\* with two records for bob
C35_TwoRecordsForBob ==
    /\ Finished
    /\ ~obs.reused
    /\ args.django_objects = "derived"
    /\ Cardinality(Carriers("bob")) = 2
    /\ \A r \in obs.db0 : r[unique_name_field] # "bob"
    /\ Cardinality({r \in db : r[unique_name_field] = "bob"}) = 2

----------------------------------------------------------------------------
(* C36: one LDAPSyncRecord per record *)

\* C36: whenever a sync() has returned, however many passes went before,
\* every record of the store has at most one LDAPSyncRecord.
C36_OneLinkPerRecord ==
    Finished => \A r \in db : Cardinality(XrefOf(xref, r.pk)) <= 1

\* a pass over search entries with pairwise distinct unique values, on a
\* store in which no record had two LDAPSyncRecords, returned with a record
\* that has two
C36_TwoLinks ==
    /\ Finished
    /\ \A n \in Names : Cardinality(Carriers(n)) <= 1
    /\ \A r \in obs.db0 : Cardinality(XrefOf(obs.xref0, r.pk)) <= 1
    /\ \E r \in db : Cardinality(XrefOf(xref, r.pk)) = 2

----------------------------------------------------------------------------
(* C37: no dangling LDAPSyncRecords *)

\* C37: when a sync() under DELETE has returned, every LDAPSyncRecord of the
\* store refers to a record the store holds: the LDAPSyncRecord of a deleted
\* orphan went with it.
C37_NoDanglingLinks ==
    (Finished /\ syn.removal_action_v = DELETE)
        => \A x \in xref : \E r \in db : r.pk = x.object_id

\* the first pass under DELETE on a store whose LDAPSyncRecords all referred
\* to records deleted a linked orphan, and the orphan's LDAPSyncRecord is
\* still in the store
C37_LinkOutlivesOrphan ==
    /\ Finished
    /\ ~obs.reused
    /\ syn.removal_action_v = DELETE
    /\ \A x \in obs.xref0 : \E r \in obs.db0 : r.pk = x.object_id
    /\ \E x \in xref :
          /\ x \in obs.xref0
          /\ x.object_id \in obs.targets
          /\ \A r \in db : r.pk # x.object_id

----------------------------------------------------------------------------
(* C38: removal only of records absent from the directory *)

\* C38: when a sync() under SUSPEND or DELETE has returned, every record of
\* its local record set that it deleted or deactivated is one whose unique
\* value no search entry of the pass carries, an entry that was skipped for a
\* missing mapped attribute included.
C38_RemovedOnlyIfAbsent ==
    (Finished /\ syn.removal_action_v \in {SUSPEND, DELETE})
        => \A r \in Local0 :
              (\/ \A t \in db : t.pk # r.pk
               \/ \E t \in db : t.pk = r.pk /\ r.is_active /\ ~t.is_active)
                 => \A j \in 1..Len(Entries) :
                       ~(/\ Entries[j].type = "searchResEntry"
                         /\ "uid" \in DOMAIN Entries[j].attributes
                         /\ EntryName(Entries[j]) = r[unique_name_field])

\* a pass under DELETE whose only entry is a search entry for alice without
\* the mapped attribute mail skipped the entry and deleted alice
C38_SkippedThenDeleted ==
    /\ Finished
    /\ ~obs.reused
    /\ syn.removal_action_v = DELETE
    /\ Len(Entries) = 1
    /\ Malformed(Entries[1])
    /\ EntryName(Entries[1]) = "alice"
    /\ \E r \in Local0 : r[unique_name_field] = "alice" /\ r.pk \in obs.targets
    /\ \A t \in db : t[unique_name_field] # "alice"

----------------------------------------------------------------------------
(* C39: write order inside a pass *)

\* C39: in every step of a pass, a record is saved and an LDAPSyncRecord is
\* rewritten only during the walk; a record is bulk-created only after the
\* walk; an LDAPSyncRecord is created during the walk or once every staged
\* record has been created; a record is deleted or deactivated only in the
\* removal step, which comes after all of that. So a pass that ended while it
\* was creating has acted on no orphan, and every record it found is still in
\* the store, as active as it was.
C39_WriteOrder ==
    /\ []((pc = "failed" /\ obs.site = "bulk_create")
             => /\ obs.targets = {}
                /\ \A r \in obs.db0 :
                      \E t \in db : t.pk = r.pk /\ t.is_active = r.is_active)
    /\ [][/\ (\/ obs'.saved \ obs.saved # {}
              \/ obs'.relinked \ obs.relinked # {}
              \/ \E r \in db : \E t \in db' : t.pk = r.pk /\ t # r)
                => Walking
          /\ obs'.created \ obs.created # {}
                => Creating
          /\ obs'.linked \ obs.linked # {}
                => Walking \/ (pc = "sync" /\ i > Len(Entries)
                                           /\ k >= Len(syn.unsaved_models_v))
          /\ (\/ obs'.targets \ obs.targets # {}
              \/ \E r \in db : \A t \in db' : t.pk # r.pk)
                => /\ pc = "remove"
                   /\ i > Len(Entries)
                   /\ k >= Len(syn.unsaved_models_v)
                   /\ pc' \in {"done", "failed"}]_vars

\* a pass under DELETE with an orphan in its local record set staged a
\* record and ended when the bulk create raised: the orphan is in the store
C39_AbortedBeforeRemoval ==
    /\ pc = "failed"
    /\ obs.site = "bulk_create"
    /\ syn.removal_action_v = DELETE
    /\ Len(syn.unsaved_models_v) >= 1
    /\ \E r \in Local0 : Carriers(r[unique_name_field]) = {} /\ r \in db

====
